---- MODULE Spec2Model ----
(***************************************************************************)
(* py_trees: the shared blackboard (py_trees/blackboard2.py).              *)
(*                                                                         *)
(* Blackboard.storage, Blackboard.metadata and Blackboard.clients are      *)
(* class attributes shared by every client; a client is one Blackboard     *)
(* instance.  Python raises ValueError for a missing permission and        *)
(* AttributeError for an absent variable and for a refused overwrite.      *)
(*                                                                         *)
(* py_trees test injection (py_trees/demos/test_demo.py, tests/            *)
(* test_test.py): a Sequence of TestInjector-wrapped leaves under a        *)
(* CoverageCounter, ticked by a BehaviourTree.                             *)
(***************************************************************************)
EXTENDS Integers, Sequences, FiniteSets, TLC

\* number of Blackboard instances constructed in one run
MaxClients == 2

\* key strings handed to the store; "read" is also the name of an instance
\* attribute of every client (the only such name among Keys)
Keys == {"foo", "read"}
Values == {"v1", "v2"}
\* unique identifiers, written as the strings str(uuid) gives
Ids == {ToString(i) : i \in 1..MaxClients}

None == "None"
NoReturn == <<"none", None>>
NotUUID == "NotUUID"
NotStr == "NotStr"

\* the exceptions the store raises for the three store failures
PermissionError == "ValueError"
KeyNotFound == "AttributeError"
AlreadyExists == "AttributeError"

\* the (read, write) key sets clients register with
Profiles ==
    { <<{}, {}>>,
      <<{"foo"}, {"foo"}>>,
      <<{"foo"}, {}>>,
      <<{"read"}, {"foo", "read"}>>,
      <<{"foo", "read"}, {"read"}>> }

VARIABLES
    storage,     \* Blackboard.storage: key -> value
    metadata,    \* Blackboard.metadata: key -> KeyMetaData
    clients,     \* Blackboard.clients: unique identifier -> instance
    objs,        \* the Blackboard instances, in order of construction
    registered,  \* instances constructed and not yet unregistered
    last         \* the latest call and its outcome

bbvars == <<storage, metadata, clients, objs, registered, last>>

VARIABLES
    ENABLE_TEST_INJECT,  \* the attribute of py_trees.blackboard.Blackboard()
    base,        \* the class of each wrapped leaf, in the order of the children
    inj,         \* the TestInjector around each leaf
    leaf,        \* the status of each wrapped leaf
    seq,         \* the Sequence: status and index of the current child
    cc,          \* the CoverageCounter around the Sequence (the root)
    yielded      \* the nodes the latest tick of the tree yielded, in order

treevars == <<ENABLE_TEST_INJECT, base, inj, leaf, seq, cc, yielded>>

VARIABLES
    demo,        \* the nodes of the demo tree: leaves S1 S2 R1, injector Q1,
                 \* counters N1 N2 N3 B1, the Sequence
    V2,          \* the CoverageVisitor: times_ticked and has_returned
    visits,      \* per node, the status it held at the end of each visit
    ii,          \* the loop index of the demo script
    pc           \* the position in the body of the loop

covvars == <<demo, V2, visits, ii, pc>>

VARIABLES
    node,        \* a leaf of py_trees.behaviours: its class, fields and status
    hist         \* the statuses its updates returned, oldest first

libvars == <<node, hist>>

VARIABLES
    chk,         \* a CheckBlackboardVariable or WaitForBlackboardVariable
    outcome,     \* what the latest call returned or raised, if it was a tick
    latch,       \* a tick has returned SUCCESS under NEVER since the latest
                 \* terminate(INVALID)
    returned     \* what the ticks since the latest terminate(INVALID) returned

chkvars == <<chk, outcome, latch, returned>>

VARIABLES
    bnode        \* a SetBlackboardVariable or ClearBlackboardVariable

VARIABLES
    ft           \* the FlightTree: statuses, cursors, overrides, latest tick

vars == <<bbvars, treevars, covvars, libvars, chkvars, bnode, ft>>

----
\* Python helpers

KeyMetaData == [read |-> <<>>, write |-> <<>>]

Contains(s, x) == \E i \in DOMAIN s : s[i] = x

RECURSIVE ListRemove(_, _)
\* list.remove(x) on a list that contains x: drops the first occurrence
ListRemove(s, x) ==
    IF s = <<>> THEN <<>>
    ELSE IF Head(s) = x THEN Tail(s)
    ELSE <<Head(s)>> \o ListRemove(Tail(s), x)

ToSet(s) == {s[i] : i \in DOMAIN s}

\* the orders in which Python may iterate over a collection of keys
Orders(S) ==
    {s \in [1..Cardinality(S) -> S] : \A i, j \in DOMAIN s : i # j => s[i] # s[j]}

Handles == DOMAIN objs

UsedIds == {objs[h].unique_identifier : h \in Handles}

\* uuid.uuid4(): an identifier no instance has used
uuid4 ==
    ToString(CHOOSE i \in 1..MaxClients :
                /\ ToString(i) \notin UsedIds
                /\ \A j \in 1..(i - 1) : ToString(j) \in UsedIds)

Call(op, h, key, value, flag, res, ret) ==
    [op |-> op, h |-> h, key |-> key, value |-> value, flag |-> flag,
     res |-> res, ret |-> ret]

----
\* Blackboard.__init__

\* the loops over read and over write: setdefault, then append the identifier
InitMetadata(md, uid, read, write) ==
    [k \in DOMAIN md \cup read \cup write |->
        LET old == IF k \in DOMAIN md THEN md[k] ELSE KeyMetaData
        IN  [read  |-> IF k \in read THEN Append(old.read, uid) ELSE old.read,
             write |-> IF k \in write THEN Append(old.write, uid) ELSE old.write]]

NewClient(uid, name, read, write) ==
    [unique_identifier |-> uid, name |-> name, read |-> read, write |-> write,
     dict |-> {"unique_identifier", "name", "read", "write"}]

Register(nameIn, uidIn, read, write) ==
    /\ Len(objs) < MaxClients
    /\ LET uid  == IF uidIn = None THEN uuid4 ELSE uidIn
           name == IF nameIn = None THEN uid ELSE nameIn
           h    == Len(objs) + 1
       IN  IF uidIn = NotUUID \/ nameIn = NotStr
           THEN /\ last' = Call("register", 0, None, None, FALSE, "TypeError", NoReturn)
                /\ UNCHANGED <<storage, metadata, clients, objs, registered>>
           ELSE /\ objs' = Append(objs, NewClient(uid, name, read, write))
                /\ metadata' = InitMetadata(metadata, uid, read, write)
                /\ clients' = [i \in DOMAIN clients \cup {uid} |->
                                  IF i = uid THEN h ELSE clients[i]]
                /\ registered' = registered \cup {h}
                /\ last' = Call("register", h, None, None, FALSE, "ok", NoReturn)
                /\ UNCHANGED storage

----
\* attribute access: getattr, setattr, delattr on an instance

\* getattr(self, name): the instance's own attribute when it has one by that
\* name, __getattr__ otherwise
GetAttr(o, name) ==
    IF name \in o.dict
    THEN [res |-> "ok", ret |-> <<"attribute", name>>]
    ELSE IF name \notin DOMAIN storage
    THEN [res |-> "AttributeError", ret |-> NoReturn]
    ELSE IF "read" \notin o.dict
    THEN [res |-> "AttributeError", ret |-> NoReturn]
    ELSE IF name \notin o.read
    THEN [res |-> "ValueError", ret |-> NoReturn]
    ELSE [res |-> "ok", ret |-> <<"value", storage[name]>>]

\* Blackboard.__setattr__ when permitted: Blackboard.storage[name] = value
Store(st, name, value) ==
    [k \in DOMAIN st \cup {name} |-> IF k = name THEN value ELSE st[k]]

\* a permission test that lets every client write every key
CanWrite_Everyone(o, name) == TRUE

\* the permission test of Blackboard.set and Blackboard.__setattr__
CanWrite(o, name) == name \in o.write

\* a set that never looks at the overwrite argument
SetResult_AlwaysOverwrites(o, name, overwrite) ==
    IF ~CanWrite(o, name) THEN "ValueError" ELSE "ok"

\* Blackboard.set
SetResult(o, name, overwrite) ==
    IF ~CanWrite(o, name) THEN "ValueError"
    ELSE IF ~overwrite /\ name \in DOMAIN storage THEN "AttributeError"
    ELSE "ok"

Set(h, name, value, overwrite) ==
    /\ h \in Handles
    /\ LET res == SetResult(objs[h], name, overwrite)
       IN  /\ storage' = IF res = "ok" THEN Store(storage, name, value) ELSE storage
           /\ last' = Call("set", h, name, value, overwrite, res,
                           IF res = "ok" THEN <<"bool", "True">> ELSE NoReturn)
    /\ UNCHANGED <<metadata, clients, objs, registered>>

\* Blackboard.get
Get(h, name) ==
    /\ h \in Handles
    /\ LET r == GetAttr(objs[h], name)
       IN  last' = Call("get", h, name, None, FALSE, r.res, r.ret)
    /\ UNCHANGED <<storage, metadata, clients, objs, registered>>

\* Blackboard.unset: delattr(self, name); the class defines no __delattr__, so
\* this is object.__delattr__, which deletes an instance attribute
DelAttrResult(o, name) == IF name \in o.dict THEN "ok" ELSE "AttributeError"

\* dict tells which instance attributes exist; the record keeps the key sets
\* the instance registered with, which Blackboard.metadata still refers to
DelAttr(o, name) ==
    IF name \in o.dict THEN [o EXCEPT !.dict = @ \ {name}] ELSE o

Unset(h, name) ==
    /\ h \in Handles
    /\ objs' = [objs EXCEPT ![h] = DelAttr(@, name)]
    /\ last' = Call("unset", h, name, None, FALSE, DelAttrResult(objs[h], name), NoReturn)
    /\ UNCHANGED <<storage, metadata, clients, registered>>

----
\* Blackboard.unregister

RECURSIVE RemoveLoop(_, _, _, _)
\* for key in <order>: Blackboard.metadata[key].<field>.remove(uid)
\* stops at the first key whose list does not hold uid (list.remove raises)
RemoveLoop(md, order, field, uid) ==
    IF order = <<>> THEN [md |-> md, ok |-> TRUE]
    ELSE IF ~Contains(md[Head(order)][field], uid) THEN [md |-> md, ok |-> FALSE]
    ELSE RemoveLoop([md EXCEPT ![Head(order)][field] = ListRemove(@, uid)],
                    Tail(order), field, uid)

\* the keys the clear loop pops: those whose reader and writer lists are empty
Unused(md, keys) ==
    {k \in keys : ToSet(md[k].read) \cup ToSet(md[k].write) = {}}

Pop(st, keys) == [k \in DOMAIN st \ keys |-> st[k]]

Unregister(h, clear) ==
    /\ h \in Handles
    /\ LET o == objs[h] IN
       IF "read" \notin o.dict
       THEN \* self.read falls through to __getattr__, which raises
            /\ last' = Call("unregister", h, None, None, clear, "AttributeError", NoReturn)
            /\ UNCHANGED <<storage, metadata, clients, objs, registered>>
       ELSE \E ro \in Orders(o.read), wo \in Orders(o.write) :
            LET r1 == RemoveLoop(metadata, ro, "read", o.unique_identifier)
                r2 == RemoveLoop(r1.md, wo, "write", o.unique_identifier)
                ok == r1.ok /\ r2.ok
                md == IF r1.ok THEN r2.md ELSE r1.md
            IN  /\ metadata' = md
                /\ storage' = IF ok /\ clear
                              THEN Pop(storage, Unused(md, o.read \cup o.write))
                              ELSE storage
                /\ registered' = IF ok THEN registered \ {h} ELSE registered
                /\ last' = Call("unregister", h, None, None, clear,
                                IF ok THEN "ok" ELSE "ValueError", NoReturn)
                /\ UNCHANGED <<clients, objs>>

----
\* introspection

\* Blackboard.keys
keys == DOMAIN metadata

\* Blackboard.keys_filtered_by_clients
keys_filtered_by_clients(client_ids) ==
    {k \in DOMAIN metadata :
        (ToSet(metadata[k].read) \cup ToSet(metadata[k].write)) \cap client_ids # {}}


----
\* Status (py_trees.common) and the leaves of py_trees.behaviours

INVALID == "INVALID"
RUNNING == "RUNNING"
SUCCESS == "SUCCESS"
FAILURE == "FAILURE"
Status == {INVALID, RUNNING, SUCCESS, FAILURE}

\* the classes made from the functions success, failure and running
LeafClasses == {"Success", "Failure", "Running"}

\* leaves that all return SUCCESS
LeafUpdate_AllSuccess(class) == SUCCESS

\* the update of a leaf: the status its function returns
LeafUpdate(class) ==
    IF class = "Success" THEN SUCCESS
    ELSE IF class = "Failure" THEN FAILURE
    ELSE RUNNING

\* number of ticks of the tree in one run
MaxTicks == 3

\* number of children of the Sequence in the trees explored
MaxChildren == 2

\* the five leaves of test_injector
TestTree == <<"Success", "Success", "Running", "Failure", "Success">>

Children == DOMAIN base

\* node identities
LeafId(i) == <<"leaf", i>>
InjId(i) == <<"injector", i>>
SeqId == <<"sequence", 0>>
CounterId == <<"counter", 0>>

----
\* TestInjector

\* 3*random.random(), in tenths
RandomDraws == {5, 10, 15, 20, 25}

\* TestInjector.__init__
NewInjector == [fixed_override |-> None, random_override |-> FALSE, status |-> INVALID]

\* Blackboard().get('ENABLE_TEST_INJECT'): None while the attribute is not set
BlackboardGet == ENABLE_TEST_INJECT

\* an injector that looks at its own override only
override_enabled_Local(t) == t.fixed_override # None \/ t.random_override

\* TestInjector.override_enabled
override_enabled(t) ==
    LET global_enable == BlackboardGet IN
    IF global_enable = None THEN FALSE
    ELSE IF ~(global_enable = "True") THEN FALSE
    ELSE IF t.fixed_override # None THEN TRUE
    ELSE IF t.random_override THEN TRUE
    ELSE FALSE

\* a draw that never selects RUNNING
DrawStatus_NeverRunning(r) == IF r <= 10 THEN SUCCESS ELSE FAILURE

\* the status a draw r = 3*random.random() selects
DrawStatus(r) ==
    IF r <= 10 THEN SUCCESS
    ELSE IF r <= 20 THEN RUNNING
    ELSE FAILURE

\* an update that forwards the wrapped status even when a fixed override is on
update_ForwardsChild(t, decorated, r) ==
    IF override_enabled(t) /\ t.fixed_override = None THEN DrawStatus(r) ELSE decorated

\* TestInjector.update: decorated is the wrapped leaf's status, r the draw
update(t, decorated, r) ==
    IF override_enabled(t)
    THEN IF t.fixed_override # None THEN t.fixed_override ELSE DrawStatus(r)
    ELSE decorated

\* a set_override that keeps random mode on when a status is given
SetOverrideFields_KeepsRandom(t, status) ==
    IF status # None
    THEN [t EXCEPT !.fixed_override = status]
    ELSE [t EXCEPT !.fixed_override = None, !.random_override = TRUE]

\* the assignments of TestInjector.set_override
SetOverrideFields(t, status) ==
    IF status # None
    THEN [t EXCEPT !.fixed_override = status, !.random_override = FALSE]
    ELSE [t EXCEPT !.fixed_override = None, !.random_override = TRUE]

\* TestInjector.set_override
set_override(i, status) ==
    /\ i \in Children
    /\ inj' = [inj EXCEPT ![i] = SetOverrideFields(@, status)]
    /\ UNCHANGED <<ENABLE_TEST_INJECT, base, leaf, seq, cc, yielded>>

\* TestInjector.disable_override
disable_override(i) ==
    /\ i \in Children
    /\ inj' = [inj EXCEPT ![i] = [@ EXCEPT !.fixed_override = None,
                                           !.random_override = FALSE]]
    /\ UNCHANGED <<ENABLE_TEST_INJECT, base, leaf, seq, cc, yielded>>

\* TestInjector.global_enable, called on injector i
global_enable(i) ==
    /\ i \in Children
    /\ ENABLE_TEST_INJECT' = "True"
    /\ UNCHANGED <<base, inj, leaf, seq, cc, yielded>>

\* a global_disable that also drops every local override
global_disable_ClearsOverrides(i) ==
    /\ i \in Children
    /\ ENABLE_TEST_INJECT' = "False"
    /\ inj' = [j \in Children |-> [inj[j] EXCEPT !.fixed_override = None,
                                                 !.random_override = FALSE]]
    /\ UNCHANGED <<base, leaf, seq, cc, yielded>>

\* TestInjector.global_disable, called on injector i
global_disable(i) ==
    /\ i \in Children
    /\ ENABLE_TEST_INJECT' = "False"
    /\ UNCHANGED <<base, inj, leaf, seq, cc, yielded>>

\* The state one tick works on: st.inj, st.leaf, st.seq, st.cc, st.yielded.
\* d gives the draw of each injector in random mode.

\* the injectors whose update can reach random.random()
RandomChildren == {i \in Children : inj[i].random_override}

\* the draw of injector i, when it makes one
DrawOf(d, i) == IF i \in DOMAIN d THEN d[i] ELSE 0

\* a tick that always descends into the wrapped leaf
TickInjector_AlwaysDescends(i, st, d) ==
    [st EXCEPT !.leaf[i] = LeafUpdate(base[i]),
               !.inj[i].status = update(st.inj[i], LeafUpdate(base[i]), DrawOf(d, i)),
               !.yielded = @ \o <<LeafId(i), InjId(i)>>]

\* TestInjector.tick: a leaf's tick when the override is enabled, a decorator's
\* tick (the wrapped leaf first) when it is not
TickInjector(i, st, d) ==
    IF override_enabled(st.inj[i])
    THEN [st EXCEPT !.inj[i].status = update(st.inj[i], st.leaf[i], DrawOf(d, i)),
                    !.yielded = Append(@, InjId(i))]
    ELSE [st EXCEPT !.leaf[i] = LeafUpdate(base[i]),
                    !.inj[i].status = update(st.inj[i], LeafUpdate(base[i]), DrawOf(d, i)),
                    !.yielded = @ \o <<LeafId(i), InjId(i)>>]

----
\* Sequence

\* terminate(INVALID) on the children after k that are RUNNING or SUCCESS, and
\* on the leaf each of them wraps
Invalidate(st, k) ==
    LET hit == {j \in Children : j > k /\ st.inj[j].status \in {RUNNING, SUCCESS}}
    IN  [st EXCEPT !.inj = [j \in Children |->
                               IF j \in hit THEN [st.inj[j] EXCEPT !.status = INVALID]
                               ELSE st.inj[j]],
                   !.leaf = [j \in Children |->
                               IF j \in hit THEN INVALID ELSE st.leaf[j]]]

\* a Sequence that also goes on after a failed child
Continues_PastFailure(status) == status \in {SUCCESS, FAILURE}

\* the Sequence goes on to the next child when a child returns SUCCESS
Continues(status) == status = SUCCESS

\* a Sequence that starts every tick at its first child
StartIndex_AlwaysFirst(s) == 1

\* the child a tick starts at: the remembered one after RUNNING, else the first
StartIndex(s) == IF s.status = RUNNING THEN s.current ELSE 1

RECURSIVE TickChildren(_, _, _)
\* the children from k on, left to right, until one is not SUCCESS
TickChildren(k, st, d) ==
    IF k > Len(base)
    THEN [st EXCEPT !.seq = [status |-> SUCCESS, current |-> 1],
                    !.yielded = Append(@, SeqId)]
    ELSE LET s1 == TickInjector(k, st, d)
             c  == s1.inj[k].status
         IN  IF Continues(c) THEN TickChildren(k + 1, s1, d)
             ELSE IF c = RUNNING
             THEN [s1 EXCEPT !.seq = [status |-> RUNNING, current |-> k],
                             !.yielded = Append(@, SeqId)]
             ELSE [Invalidate(s1, k) EXCEPT
                             !.seq = [status |-> FAILURE, current |-> 1],
                             !.yielded = Append(@, SeqId)]

\* Sequence.tick
TickSequence(st, d) == TickChildren(StartIndex(st.seq), st, d)

----
\* CoverageCounter

\* CoverageCounter.__init__
NewCounter ==
    [status |-> INVALID, times_ticked |-> 0, times_success |-> 0,
     times_running |-> 0, times_failure |-> 0]

\* a counter that reports SUCCESS whatever it wraps
CounterStatus_AlwaysSuccess(decorated) == SUCCESS

\* the status CoverageCounter.update returns
CounterStatus(decorated) == decorated

\* a counter that counts every status that is not SUCCESS or RUNNING as a failure
CounterUpdate_CountsRest(c, decorated) ==
    [status        |-> CounterStatus(decorated),
     times_ticked  |-> c.times_ticked + 1,
     times_success |-> c.times_success + (IF decorated = SUCCESS THEN 1 ELSE 0),
     times_running |-> c.times_running + (IF decorated = RUNNING THEN 1 ELSE 0),
     times_failure |-> c.times_failure +
                          (IF decorated \notin {SUCCESS, RUNNING} THEN 1 ELSE 0)]

\* CoverageCounter.update: decorated is the wrapped node's status
CounterUpdate(c, decorated) ==
    [status        |-> CounterStatus(decorated),
     times_ticked  |-> c.times_ticked + 1,
     times_success |-> c.times_success + (IF decorated = SUCCESS THEN 1 ELSE 0),
     times_running |-> c.times_running + (IF decorated = RUNNING THEN 1 ELSE 0),
     times_failure |-> c.times_failure + (IF decorated = FAILURE THEN 1 ELSE 0)]

\* the tick of the root: the Sequence first, then the counter's update
TickCounter(st, d) ==
    LET s1 == TickSequence(st, d)
    IN  [s1 EXCEPT !.cc = CounterUpdate(s1.cc, s1.seq.status),
                   !.yielded = Append(@, CounterId)]

----
\* BehaviourTree.tick

TickResult(d) ==
    TickCounter([inj |-> inj, leaf |-> leaf, seq |-> seq, cc |-> cc,
                 yielded |-> <<>>], d)

Tick(d) ==
    /\ cc.times_ticked < MaxTicks
    /\ LET r == TickResult(d)
       IN  /\ inj' = r.inj
           /\ leaf' = r.leaf
           /\ seq' = r.seq
           /\ cc' = r.cc
           /\ yielded' = r.yielded
    /\ UNCHANGED <<ENABLE_TEST_INJECT, base>>

\* the tree as constructed: every node INVALID, no override, no flag
InitTree(tree) ==
    /\ ENABLE_TEST_INJECT = None
    /\ base = tree
    /\ inj = [i \in DOMAIN tree |-> NewInjector]
    /\ leaf = [i \in DOMAIN tree |-> INVALID]
    /\ seq = [status |-> INVALID, current |-> 1]
    /\ cc = NewCounter
    /\ yielded = <<>>

----
\* The demo tree of test_demo.py:
\* B1 = CoverageCounter(Sequence([N1, N2, N3])), N1 = CoverageCounter(S1),
\* N2 = CoverageCounter(S2), N3 = CoverageCounter(Q1), Q1 = TestInjector(R1)

DemoIds == {"S1", "N1", "S2", "N2", "R1", "Q1", "N3", "demo", "B1"}

\* the children of the Sequence, the node each wraps and the leaf below
DemoChildren == <<"N1", "N2", "N3">>
DemoWrapped == <<"S1", "S2", "Q1">>
DemoLeafClass == <<"Success", "Success", "Running">>

\* the tree as constructed
NewDemo ==
    [S1 |-> INVALID, S2 |-> INVALID, R1 |-> INVALID,
     Q1 |-> NewInjector,
     N1 |-> NewCounter, N2 |-> NewCounter, N3 |-> NewCounter,
     seq |-> [status |-> INVALID, current |-> 1],
     B1 |-> NewCounter]

\* CoverageVisitor.__init__
NewVisitor ==
    [times_ticked |-> <<>>,
     has_returned |-> [s \in {RUNNING, SUCCESS, FAILURE} |-> {}]]

\* A tick works on the record of the nodes extended with out, the nodes it
\* yields with the status each holds when yielded.

\* N1 and N2: the leaf ticks, then the counter around it updates
TickCountedLeaf(st, k) ==
    LET s == LeafUpdate(DemoLeafClass[k])
        c == CounterUpdate(st[DemoChildren[k]], s)
    IN  [st EXCEPT ![DemoWrapped[k]] = s,
                   ![DemoChildren[k]] = c,
                   !.out = @ \o << <<DemoWrapped[k], s>>, <<DemoChildren[k], c.status>> >>]

\* an injector that ticks R1 and forwards its status whatever the override
TickQ1_IgnoresOverride(st, r) ==
    LET l == LeafUpdate(DemoLeafClass[3])
    IN  [st EXCEPT !.R1 = l, !.Q1.status = l,
                   !.out = @ \o << <<"R1", l>>, <<"Q1", l>> >>]

\* Q1: TestInjector.tick around R1
TickQ1(st, r) ==
    IF override_enabled(st.Q1)
    THEN LET s == update(st.Q1, st.R1, r)
         IN  [st EXCEPT !.Q1.status = s, !.out = Append(@, <<"Q1", s>>)]
    ELSE LET l == LeafUpdate(DemoLeafClass[3])
             s == update(st.Q1, l, r)
         IN  [st EXCEPT !.R1 = l, !.Q1.status = s,
                        !.out = @ \o << <<"R1", l>>, <<"Q1", s>> >>]

\* N3: Q1 ticks, then the counter around it updates
TickN3(st, r) ==
    LET s1 == TickQ1(st, r)
        c  == CounterUpdate(s1.N3, s1.Q1.status)
    IN  [s1 EXCEPT !.N3 = c, !.out = Append(@, <<"N3", c.status>>)]

TickDemoChild(k, st, r) == IF k = 3 THEN TickN3(st, r) ELSE TickCountedLeaf(st, k)

\* terminate(INVALID) on the children of the Sequence after k that are
\* RUNNING or SUCCESS, and on what they wrap
DemoInvalidate(st, k) ==
    LET hit == {j \in DOMAIN DemoChildren :
                   j > k /\ st[DemoChildren[j]].status \in {RUNNING, SUCCESS}}
        off(c) == [c EXCEPT !.status = INVALID]
    IN  [st EXCEPT !.N1 = IF 1 \in hit THEN off(@) ELSE @,
                   !.S1 = IF 1 \in hit THEN INVALID ELSE @,
                   !.N2 = IF 2 \in hit THEN off(@) ELSE @,
                   !.S2 = IF 2 \in hit THEN INVALID ELSE @,
                   !.N3 = IF 3 \in hit THEN off(@) ELSE @,
                   !.Q1 = IF 3 \in hit THEN off(@) ELSE @,
                   !.R1 = IF 3 \in hit THEN INVALID ELSE @]

RECURSIVE TickDemoChildren(_, _, _)
\* the Sequence over N1, N2, N3 from child k on
TickDemoChildren(k, st, r) ==
    IF k > Len(DemoChildren)
    THEN [st EXCEPT !.seq = [status |-> SUCCESS, current |-> 1],
                    !.out = Append(@, <<"demo", SUCCESS>>)]
    ELSE LET s1 == TickDemoChild(k, st, r)
             c  == s1[DemoChildren[k]].status
         IN  IF Continues(c) THEN TickDemoChildren(k + 1, s1, r)
             ELSE IF c = RUNNING
             THEN [s1 EXCEPT !.seq = [status |-> RUNNING, current |-> k],
                             !.out = Append(@, <<"demo", RUNNING>>)]
             ELSE [DemoInvalidate(s1, k) EXCEPT
                             !.seq = [status |-> FAILURE, current |-> 1],
                             !.out = Append(@, <<"demo", FAILURE>>)]

\* the tick of the root B1
TickB1(st, r) ==
    LET s1 == TickDemoChildren(StartIndex(st.seq), st, r)
        c  == CounterUpdate(s1.B1, s1.seq.status)
    IN  [s1 EXCEPT !.B1 = c, !.out = Append(@, <<"B1", c.status>>)]

\* a visitor that counts a node only the first time it sees it
VisitorRun_CountsOnce(v, id, status) ==
    [times_ticked |->
         IF id \in DOMAIN v.times_ticked THEN v.times_ticked
         ELSE v.times_ticked @@ (id :> 1),
     has_returned |->
         IF status \in DOMAIN v.has_returned
         THEN [v.has_returned EXCEPT ![status] = @ \cup {id}]
         ELSE v.has_returned]

\* CoverageVisitor.run on a node with the given id and status
VisitorRun(v, id, status) ==
    [times_ticked |->
         IF id \in DOMAIN v.times_ticked
         THEN [v.times_ticked EXCEPT ![id] = @ + 1]
         ELSE v.times_ticked @@ (id :> 1),
     has_returned |->
         IF status \in DOMAIN v.has_returned
         THEN [v.has_returned EXCEPT ![status] = @ \cup {id}]
         ELSE v.has_returned]

RECURSIVE RunVisitor(_, _)
\* the visitor run on each node a tick yields, in order
RunVisitor(v, out) ==
    IF out = <<>> THEN v
    ELSE RunVisitor(VisitorRun(v, Head(out)[1], Head(out)[2]), Tail(out))

RECURSIVE Record(_, _)
\* the visits of a tick added to the record of all visits
Record(h, out) ==
    IF out = <<>> THEN h
    ELSE Record([h EXCEPT ![Head(out)[1]] = Append(@, Head(out)[2])], Tail(out))

\* a report that shows every node as having succeeded
report_AllSucceeded ==
    {<<id, V2.times_ticked[id], TRUE,
       id \in V2.has_returned[RUNNING],
       id \in V2.has_returned[FAILURE]>> : id \in DOMAIN V2.times_ticked}

\* CoverageVisitor.report: per node id, the tick count and whether SUCCESS,
\* RUNNING and FAILURE were seen
report ==
    {<<id, V2.times_ticked[id],
       id \in V2.has_returned[SUCCESS],
       id \in V2.has_returned[RUNNING],
       id \in V2.has_returned[FAILURE]>> : id \in DOMAIN V2.times_ticked}

\* the draws Q1 can make
DemoDraws == IF demo.Q1.random_override THEN RandomDraws ELSE {0}

\* T.tick(): the root ticks and the visitor runs on every node yielded
DemoTickEffect(r) ==
    LET res == TickB1([n \in DOMAIN demo \cup {"out"} |->
                          IF n = "out" THEN <<>> ELSE demo[n]], r)
    IN  /\ demo' = [n \in DOMAIN demo |-> res[n]]
        /\ V2' = RunVisitor(V2, res.out)
        /\ visits' = Record(visits, res.out)

\* a tick of the tree at any moment
DemoTick(r) ==
    /\ demo.B1.times_ticked < MaxTicks
    /\ DemoTickEffect(r)
    /\ UNCHANGED <<ii, pc>>

\* a tick of the subtree N3 alone, as the Sequence runs it
SubtreeTick(r) ==
    /\ demo.N3.times_ticked < MaxTicks
    /\ LET res == TickN3([n \in DOMAIN demo \cup {"out"} |->
                             IF n = "out" THEN <<>> ELSE demo[n]], r)
       IN  demo' = [n \in DOMAIN demo |-> res[n]]
    /\ UNCHANGED <<V2, visits, ii, pc>>

\* Q1.set_override
Q1_set_override(status) ==
    /\ demo' = [demo EXCEPT !.Q1 = SetOverrideFields(@, status)]
    /\ UNCHANGED <<V2, visits, ii, pc>>

\* Q1.disable_override
Q1_disable_override ==
    /\ demo' = [demo EXCEPT !.Q1 = [@ EXCEPT !.fixed_override = None,
                                             !.random_override = FALSE]]
    /\ UNCHANGED <<V2, visits, ii, pc>>

\* Q1.global_enable and Q1.global_disable
Q1_global(value) ==
    /\ ENABLE_TEST_INJECT' = value
    /\ UNCHANGED <<base, inj, leaf, seq, cc, yielded>>

\* the number of iterations of the demo's loop
ScriptTicks == 20

\* the four tests at the head of the loop body
ScriptCall ==
    /\ pc = "call" /\ ii < ScriptTicks
    /\ demo' = [demo EXCEPT !.Q1 =
                   IF ii = 3 THEN SetOverrideFields(@, FAILURE)
                   ELSE IF ii = 5 THEN SetOverrideFields(@, SUCCESS)
                   ELSE IF ii = 7 THEN SetOverrideFields(@, None)
                   ELSE IF ii = 9 THEN [@ EXCEPT !.fixed_override = None,
                                                 !.random_override = FALSE]
                   ELSE @]
    /\ pc' = "tick"
    /\ UNCHANGED <<V2, visits, ii>>

\* T.tick() at the end of the loop body
ScriptTick(r) ==
    /\ pc = "tick"
    /\ DemoTickEffect(r)
    /\ ii' = ii + 1
    /\ pc' = IF ii + 1 < ScriptTicks THEN "call" ELSE "done"

\* the demo as constructed
InitDemo ==
    /\ demo = NewDemo
    /\ V2 = NewVisitor
    /\ visits = [id \in DemoIds |-> <<>>]
    /\ ii = 0
    /\ pc = "call"

----
\* Leaves of py_trees.behaviours: Periodic, SuccessEveryN, Count

\* largest period of a Periodic and largest n of a SuccessEveryN
MaxPeriod == 2

\* largest threshold of a Count
MaxThreshold == 2

\* number of updates of a leaf between two resets
MaxUpdates == 7

\* number of resets of a Count in one run
MaxResets == 2

\* Periodic.__init__
NewPeriodic(n) ==
    [kind |-> "Periodic", status |-> INVALID, feedback_message |-> "",
     count |-> 0, period |-> n, response |-> RUNNING]

\* SuccessEveryN.__init__
NewSuccessEveryN(n) ==
    [kind |-> "SuccessEveryN", status |-> INVALID, feedback_message |-> "",
     count |-> 0, every_n |-> n]

\* Count.__init__
NewCount(fail_until, running_until, success_until, reset) ==
    [kind |-> "Count", status |-> INVALID, feedback_message |-> "",
     count |-> 0, fail_until |-> fail_until, running_until |-> running_until,
     success_until |-> success_until, number_count_resets |-> 0,
     number_updated |-> 0, reset |-> reset]

\* An update gives the leaf with its new fields and the status returned.

\* Periodic.update
PeriodicUpdate(b) ==
    LET c == b.count + 1 IN
    IF c > b.period
    THEN IF b.response = FAILURE
         THEN <<[b EXCEPT !.count = 0, !.response = RUNNING,
                          !.feedback_message = "flip to running"], RUNNING>>
         ELSE IF b.response = RUNNING
         THEN <<[b EXCEPT !.count = 0, !.response = SUCCESS,
                          !.feedback_message = "flip to success"], SUCCESS>>
         ELSE <<[b EXCEPT !.count = 0, !.response = FAILURE,
                          !.feedback_message = "flip to failure"], FAILURE>>
    ELSE <<[b EXCEPT !.count = c, !.feedback_message = "constant"], b.response>>

\* a SuccessEveryN that succeeds on the update after each multiple of n
SuccessEveryNUpdate_OneLate(b) ==
    LET c == b.count + 1 IN
    IF b.count % b.every_n = 0
    THEN <<[b EXCEPT !.count = c, !.feedback_message = "now"], SUCCESS>>
    ELSE <<[b EXCEPT !.count = c, !.feedback_message = "not yet"], FAILURE>>

\* SuccessEveryN.update
SuccessEveryNUpdate(b) ==
    LET c == b.count + 1 IN
    IF c % b.every_n = 0
    THEN <<[b EXCEPT !.count = c, !.feedback_message = "now"], SUCCESS>>
    ELSE <<[b EXCEPT !.count = c, !.feedback_message = "not yet"], FAILURE>>

\* a Count that goes on with SUCCESS after success_until
CountUpdate_SucceedsForever(b) ==
    LET c == b.count + 1
        b1 == [b EXCEPT !.count = c, !.number_updated = @ + 1]
    IN  IF c <= b.fail_until
        THEN <<[b1 EXCEPT !.feedback_message = "failing"], FAILURE>>
        ELSE IF c <= b.running_until
        THEN <<[b1 EXCEPT !.feedback_message = "running"], RUNNING>>
        ELSE <<[b1 EXCEPT !.feedback_message = "success"], SUCCESS>>

\* Count.update
CountUpdate(b) ==
    LET c == b.count + 1
        b1 == [b EXCEPT !.count = c, !.number_updated = @ + 1]
    IN  IF c <= b.fail_until
        THEN <<[b1 EXCEPT !.feedback_message = "failing"], FAILURE>>
        ELSE IF c <= b.running_until
        THEN <<[b1 EXCEPT !.feedback_message = "running"], RUNNING>>
        ELSE IF c <= b.success_until
        THEN <<[b1 EXCEPT !.feedback_message = "success"], SUCCESS>>
        ELSE <<[b1 EXCEPT !.feedback_message = "failing forever more"], FAILURE>>

\* Count.terminate
CountTerminate(b, new_status) ==
    IF new_status = INVALID /\ b.reset
    THEN [b EXCEPT !.count = 0, !.number_count_resets = @ + 1,
                   !.feedback_message = ""]
    ELSE [b EXCEPT !.feedback_message = ""]

\* update of the leaf's class
LeafClassUpdate(b) ==
    IF b.kind = "Periodic" THEN PeriodicUpdate(b)
    ELSE IF b.kind = "SuccessEveryN" THEN SuccessEveryNUpdate(b)
    ELSE CountUpdate(b)

\* terminate of the leaf's class; Periodic and SuccessEveryN do not define one
LeafClassTerminate(b, new_status) ==
    IF b.kind = "Count" THEN CountTerminate(b, new_status) ELSE b

\* Behaviour.tick on a leaf whose class has no initialise of its own: update
\* once, terminate when RUNNING ends in SUCCESS or FAILURE or when the new
\* status is INVALID, then take the new status
LeafTickResult(b) ==
    LET u  == LeafClassUpdate(b)
        b1 == u[1]
        new_status == u[2]
        b2 == IF (b.status = RUNNING /\ new_status \in {SUCCESS, FAILURE})
                 \/ new_status = INVALID
              THEN LeafClassTerminate(b1, new_status) ELSE b1
    IN  <<[b2 EXCEPT !.status = new_status], new_status>>

\* a tick of the leaf
LeafTick ==
    /\ Len(hist) < MaxUpdates
    /\ node' = LeafTickResult(node)[1]
    /\ hist' = Append(hist, LeafTickResult(node)[2])

\* terminate(new_status) called on the leaf; the updates are counted afresh
\* from a terminate(INVALID) on a leaf made with reset
LeafTerminate(new_status) ==
    /\ (node.kind = "Count" /\ new_status = INVALID /\ node.reset)
          => node.number_count_resets < MaxResets
    /\ node' = LeafClassTerminate(node, new_status)
    /\ hist' = IF node.kind = "Count" /\ new_status = INVALID /\ node.reset
               THEN <<>> ELSE hist

\* stop(INVALID) from a parent: terminate(INVALID), then the status is INVALID
LeafStop ==
    /\ node.status # INVALID
    /\ (node.kind = "Count" /\ node.reset) => node.number_count_resets < MaxResets
    /\ node' = [LeafClassTerminate(node, INVALID) EXCEPT !.status = INVALID]
    /\ hist' = IF node.kind = "Count" /\ node.reset THEN <<>> ELSE hist

\* the leaves explored
Leaves ==
    {NewPeriodic(n) : n \in 1..MaxPeriod}
    \cup {NewSuccessEveryN(n) : n \in 1..MaxPeriod}
    \cup {NewCount(t[1], t[2], t[3], r) :
            t \in (0..MaxThreshold) \X (0..MaxThreshold) \X (0..MaxThreshold),
            r \in BOOLEAN}

InitLeaf(b) ==
    /\ node = b
    /\ hist = <<>>

----
\* CheckBlackboardVariable and WaitForBlackboardVariable, as py_trees.behaviours
\* and as py_trees.blackboard2 define them

ON_INITIALISE == "ON_INITIALISE"
ON_SUCCESS == "ON_SUCCESS"
NEVER == "NEVER"
ClearingPolicy == {ON_INITIALISE, ON_SUCCESS, NEVER}

\* a variable name is written <<first component, the rest>>, the rest "" for a
\* name without a dot; "read" is also an instance attribute of the client
CheckNames == {<<"foo", "">>, <<"foo", "sub">>, <<"read", "">>}

\* the name as the string handed to the constructor
Dotted(vn) == IF vn[2] = "" THEN vn[1] ELSE vn[1] \o "." \o vn[2]

\* the values explored: "v2" is an object whose attribute sub holds "v1",
\* "v1" an object without that attribute
HasAttr(v, f) == v = "v2" /\ f = "sub"
AttrOf(v, f) == "v1"

\* __init__: the behaviours module registers the first component of the name
\* for reading, the blackboard2 module the whole name
NewCheck(module, kind, vn, expected_value, clearing_policy) ==
    [module |-> module, kind |-> kind, variable_name |-> vn,
     blackboard |-> NewClient("chk", "chk",
                              IF module = "behaviours" THEN {vn[1]}
                              ELSE {Dotted(vn)}, {}),
     expected_value |-> expected_value, clearing_policy |-> clearing_policy,
     matching_result |-> None, feedback_message |-> "", status |-> INVALID]

\* initialise under a policy that clears on every initialise
CheckInitialise_ClearsAlways(b) == [b EXCEPT !.matching_result = None]

\* initialise under a policy that never clears
CheckInitialise_KeepsResult(b) == b

\* initialise
CheckInitialise(b) ==
    IF b.clearing_policy = ON_INITIALISE
    THEN [b EXCEPT !.matching_result = None] ELSE b

\* terminate
CheckTerminate(b, new_status) ==
    IF new_status = INVALID THEN [b EXCEPT !.matching_result = None] ELSE b

\* get(client, key) of the store the behaviours module imports
StoreGet(o, key) ==
    IF key \notin o.read THEN [res |-> "ValueError", ret |-> NoReturn]
    ELSE IF key \notin DOMAIN storage THEN [res |-> "KeyError", ret |-> NoReturn]
    ELSE [res |-> "ok", ret |-> <<"value", storage[key]>>]

\* operator.attrgetter(nested)(value)
AttrGetter(ret, nested, missing) ==
    IF ret[1] = "value" /\ HasAttr(ret[2], nested)
    THEN [res |-> "ok", ret |-> <<"value", AttrOf(ret[2], nested)>>]
    ELSE [res |-> missing, ret |-> NoReturn]

\* the value the behaviours module reads: get, then the nested attributes,
\* a missing one raised as KeyError
ReadValue(b) ==
    LET r == StoreGet(b.blackboard, b.variable_name[1]) IN
    IF r.res = "ok" /\ b.variable_name[2] # ""
    THEN AttrGetter(r.ret, b.variable_name[2], "KeyError")
    ELSE r

\* the value the blackboard2 module reads: operator.attrgetter(variable_name)
\* on the client
ReadValue2(b) ==
    LET r == GetAttr(b.blackboard, b.variable_name[1]) IN
    IF r.res = "ok" /\ b.variable_name[2] # ""
    THEN AttrGetter(r.ret, b.variable_name[2], "AttributeError")
    ELSE r

\* comparison_operator(value, expected_value), the operator being operator.eq
Matches(ret, expected_value) == ret = <<"value", expected_value>>

\* an end of update that keeps a SUCCESS only
KeepResult_DropsFailure(b, result, feedback) ==
    <<[b EXCEPT !.feedback_message = feedback,
                !.matching_result =
                    IF result = SUCCESS /\ b.clearing_policy # ON_SUCCESS
                    THEN result ELSE None],
      result>>

\* the end of CheckBlackboardVariable.update: keep the result unless it is a
\* SUCCESS under ON_SUCCESS
KeepResult(b, result, feedback) ==
    <<[b EXCEPT !.feedback_message = feedback,
                !.matching_result =
                    IF result = SUCCESS /\ b.clearing_policy = ON_SUCCESS
                    THEN None ELSE result],
      result>>

\* the end of WaitForBlackboardVariable.update: RUNNING is never kept
KeepFinished(b, result, feedback) ==
    <<[b EXCEPT !.feedback_message = feedback,
                !.matching_result =
                    IF result = SUCCESS /\ b.clearing_policy = ON_SUCCESS
                    THEN None
                    ELSE IF result # RUNNING THEN result ELSE @],
      result>>

\* An update gives the node with its new fields and the status returned or the
\* name of the exception raised.

\* CheckBlackboardVariable.update (behaviours)
CheckUpdate(b) ==
    IF b.matching_result # None THEN <<b, b.matching_result>>
    ELSE LET r == ReadValue(b) IN
         IF r.res = "KeyError" THEN KeepResult(b, FAILURE, "did not exist")
         ELSE IF r.res # "ok" THEN <<b, r.res>>
         ELSE IF b.expected_value = None THEN KeepResult(b, SUCCESS, "exists")
         ELSE IF Matches(r.ret, b.expected_value)
         THEN KeepResult(b, SUCCESS, "comparison succeeded")
         ELSE KeepResult(b, FAILURE, "comparison failed")

\* CheckBlackboardVariable.update (blackboard2)
CheckUpdate2(b) ==
    IF b.matching_result # None THEN <<b, b.matching_result>>
    ELSE LET r == ReadValue2(b) IN
         IF r.res = "AttributeError" THEN KeepResult(b, FAILURE, "did not exist")
         ELSE IF r.res # "ok" THEN <<b, r.res>>
         ELSE IF b.expected_value = None THEN KeepResult(b, SUCCESS, "exists")
         ELSE IF Matches(r.ret, b.expected_value)
         THEN KeepResult(b, SUCCESS, "comparison succeeded")
         ELSE KeepResult(b, FAILURE, "comparison failed")

\* WaitForBlackboardVariable.update (behaviours)
WaitUpdate(b) ==
    IF b.matching_result # None THEN <<b, b.matching_result>>
    ELSE LET r == ReadValue(b) IN
         IF r.res = "KeyError" THEN KeepFinished(b, RUNNING, "did not exist")
         ELSE IF r.res # "ok" THEN <<b, r.res>>
         ELSE IF b.expected_value = None THEN KeepFinished(b, SUCCESS, "exists")
         ELSE IF Matches(r.ret, b.expected_value)
         THEN KeepFinished(b, SUCCESS, "comparison succeeded")
         ELSE KeepFinished(b, RUNNING, "comparison failed")

\* WaitForBlackboardVariable.update (blackboard2)
WaitUpdate2(b) ==
    IF b.matching_result # None THEN <<b, b.matching_result>>
    ELSE LET r == ReadValue2(b) IN
         IF r.res = "AttributeError" THEN KeepFinished(b, RUNNING, "did not exist")
         ELSE IF r.res # "ok" THEN <<b, r.res>>
         ELSE IF b.expected_value = None THEN KeepFinished(b, SUCCESS, "exists")
         ELSE IF Matches(r.ret, b.expected_value)
         THEN KeepFinished(b, SUCCESS, "comparison succeeded")
         ELSE KeepFinished(b, RUNNING, "comparison failed")

\* update of the node's class
CheckClassUpdate(b) ==
    IF b.kind = "Check"
    THEN IF b.module = "behaviours" THEN CheckUpdate(b) ELSE CheckUpdate2(b)
    ELSE IF b.module = "behaviours" THEN WaitUpdate(b) ELSE WaitUpdate2(b)

\* Behaviour.tick on the node: initialise unless RUNNING, update once,
\* terminate when RUNNING ends in SUCCESS or FAILURE or when the new status is
\* INVALID, then take the new status; an exception of update leaves the tick
CheckTickResult(b) ==
    LET b0 == IF b.status # RUNNING THEN CheckInitialise(b) ELSE b
        u  == CheckClassUpdate(b0)
        b1 == u[1]
        new_status == u[2]
        b2 == IF (b.status = RUNNING /\ new_status \in {SUCCESS, FAILURE})
                 \/ new_status = INVALID
              THEN CheckTerminate(b1, new_status) ELSE b1
    IN  IF new_status \in Status
        THEN <<[b2 EXCEPT !.status = new_status], new_status>>
        ELSE <<b1, new_status>>

\* a tick of the node
CheckTick ==
    /\ chk' = CheckTickResult(chk)[1]
    /\ outcome' = CheckTickResult(chk)[2]
    /\ latch' = (latch \/ (chk.clearing_policy = NEVER
                           /\ CheckTickResult(chk)[2] = SUCCESS))
    /\ returned' = returned \cup {CheckTickResult(chk)[2]}
    /\ UNCHANGED bbvars

\* terminate(new_status) called on the node
CheckTerminateCall(new_status) ==
    /\ chk' = CheckTerminate(chk, new_status)
    /\ outcome' = None
    /\ latch' = (latch /\ new_status # INVALID)
    /\ returned' = IF new_status = INVALID THEN {} ELSE returned
    /\ UNCHANGED bbvars

\* stop(INVALID) from a parent: terminate(INVALID), then the status is INVALID
CheckStop ==
    /\ chk.status # INVALID
    /\ chk' = [CheckTerminate(chk, INVALID) EXCEPT !.status = INVALID]
    /\ outcome' = None
    /\ latch' = FALSE
    /\ returned' = {}
    /\ UNCHANGED bbvars

\* another client writes a variable: Blackboard.storage[name] = value
WriteValue(name, value) ==
    /\ storage' = Store(storage, name, value)
    /\ outcome' = None
    /\ UNCHANGED <<metadata, clients, objs, registered, last, chk, latch, returned>>

\* a variable is taken off the blackboard: Blackboard.storage.pop(key)
DeleteValue(name) ==
    /\ name \in DOMAIN storage
    /\ storage' = Pop(storage, {name})
    /\ outcome' = None
    /\ UNCHANGED <<metadata, clients, objs, registered, last, chk, latch, returned>>

\* the nodes explored
CheckNodes ==
    {NewCheck(m, k, vn, e, p) :
        m \in {"behaviours", "blackboard2"}, k \in {"Check", "Wait"},
        vn \in CheckNames, e \in Values \cup {None}, p \in ClearingPolicy}

InitCheck(b) ==
    /\ chk = b
    /\ outcome = None
    /\ latch = FALSE
    /\ returned = {}

----
\* SetBlackboardVariable and ClearBlackboardVariable, as py_trees.behaviours
\* and as py_trees.blackboard2 define them

\* __init__: the node's id, name and arguments; h is the handle of
\* self.blackboard (0 while there is none), client the client the behaviours
\* module registers for writing variable_name
NewStoreLeaf(module, kind, variable_name) ==
    [module |-> module, kind |-> kind, variable_name |-> variable_name,
     variable_value |-> "v1", id |-> "node", name |-> "leaf", h |-> 0,
     client |-> NewClient("node", "leaf", {}, {variable_name}),
     status |-> INVALID]

\* Behaviour.tick on the node: initialise has raised res, or has not and
\* update has returned SUCCESS
TickOutcome(res) ==
    /\ bnode' = IF res = "ok" THEN [bnode EXCEPT !.status = SUCCESS] ELSE bnode
    /\ last' = Call("tick", bnode.h, bnode.variable_name, None, FALSE, res,
                    IF res = "ok" THEN <<"status", SUCCESS>> ELSE NoReturn)

\* tick of ClearBlackboardVariable (blackboard2): initialise calls
\* self.blackboard.unset(self.variable_name)
TickClear2 ==
    /\ bnode.module = "blackboard2" /\ bnode.kind = "Clear"
    /\ objs' = [objs EXCEPT ![bnode.h] = DelAttr(@, bnode.variable_name)]
    /\ TickOutcome(DelAttrResult(objs[bnode.h], bnode.variable_name))
    /\ UNCHANGED <<storage, metadata, clients, registered>>

\* tick of SetBlackboardVariable (blackboard2): initialise constructs a
\* Blackboard under the node's id and sets the variable through it
TickSet2 ==
    /\ bnode.module = "blackboard2" /\ bnode.kind = "Set"
    /\ Len(objs) < MaxClients
    /\ LET h == Len(objs) + 1
           o == NewClient(bnode.id, bnode.name, {}, {bnode.variable_name})
           res == SetResult(o, bnode.variable_name, TRUE)
       IN  /\ objs' = Append(objs, o)
           /\ metadata' = InitMetadata(metadata, bnode.id, {}, {bnode.variable_name})
           /\ clients' = [i \in DOMAIN clients \cup {bnode.id} |->
                             IF i = bnode.id THEN h ELSE clients[i]]
           /\ registered' = registered \cup {h}
           /\ storage' = IF res = "ok"
                         THEN Store(storage, bnode.variable_name, bnode.variable_value)
                         ELSE storage
           /\ bnode' = IF res = "ok" THEN [bnode EXCEPT !.h = h, !.status = SUCCESS]
                       ELSE [bnode EXCEPT !.h = h]
           /\ last' = Call("tick", h, bnode.variable_name, None, FALSE, res,
                           IF res = "ok" THEN <<"status", SUCCESS>> ELSE NoReturn)

\* tick of ClearBlackboardVariable (behaviours): initialise calls unset of the
\* store the module imports, which fails with KeyNotFound on an absent key
TickClear ==
    /\ bnode.module = "behaviours" /\ bnode.kind = "Clear"
    /\ IF bnode.variable_name \in DOMAIN storage
       THEN /\ storage' = Pop(storage, {bnode.variable_name})
            /\ TickOutcome("ok")
       ELSE /\ storage' = storage
            /\ TickOutcome("KeyError")
    /\ UNCHANGED <<metadata, clients, objs, registered>>

\* tick of SetBlackboardVariable (behaviours): initialise calls set of the
\* store the module imports, with overwrite=True
TickSet ==
    /\ bnode.module = "behaviours" /\ bnode.kind = "Set"
    /\ IF bnode.variable_name \in bnode.client.write
       THEN /\ storage' = Store(storage, bnode.variable_name, bnode.variable_value)
            /\ TickOutcome("ok")
       ELSE /\ storage' = storage
            /\ TickOutcome("ValueError")
    /\ UNCHANGED <<metadata, clients, objs, registered>>

\* the nodes explored
StoreLeaves ==
    {NewStoreLeaf(m, k, vn) :
        m \in {"behaviours", "blackboard2"}, k \in {"Set", "Clear"}, vn \in Keys}

----
\* The FlightTree of demos/built_in_test.py.
\* Each node is named after the name given to its leaf; "inj_" marks the
\* TestInjector around a leaf, "fir_" the FailureIsRunning around an
\* injector and "fis_" the FailureIsSuccess around do_move.

Node(kind, children) == [kind |-> kind, children |-> children]

\* FlightTree.__init__
Flight ==
    [flight            |-> Node("AssertNever", <<"operation">>),
     operation         |-> Node("Sequence", <<"to_climb", "move_land">>),
     to_climb          |-> Node("Sequence", <<"fir_check_mode", "arm", "fir_is_armed",
                                              "take_off", "fir_at_alt">>),
     fir_check_mode    |-> Node("FailureIsRunning", <<"inj_check_mode">>),
     inj_check_mode    |-> Node("TestInjector", <<"check_mode">>),
     check_mode        |-> Node("Success", <<>>),
     arm               |-> Node("Success", <<>>),
     fir_is_armed      |-> Node("FailureIsRunning", <<"inj_is_armed">>),
     inj_is_armed      |-> Node("TestInjector", <<"is_armed">>),
     is_armed          |-> Node("Success", <<>>),
     take_off          |-> Node("Success", <<>>),
     fir_at_alt        |-> Node("FailureIsRunning", <<"inj_at_alt">>),
     inj_at_alt        |-> Node("TestInjector", <<"at_alt">>),
     at_alt            |-> Node("Success", <<>>),
     move_land         |-> Node("Sequence", <<"fis_do_move", "land">>),
     fis_do_move       |-> Node("FailureIsSuccess", <<"do_move">>),
     do_move           |-> Node("Sequence", <<"upload", "fir_check_upload",
                                              "start_mission", "fir_check_arrived">>),
     upload            |-> Node("Success", <<>>),
     fir_check_upload  |-> Node("FailureIsRunning", <<"inj_check_upload">>),
     inj_check_upload  |-> Node("TestInjector", <<"check_upload">>),
     check_upload      |-> Node("Success", <<>>),
     start_mission     |-> Node("Success", <<>>),
     fir_check_arrived |-> Node("FailureIsRunning", <<"inj_check_arrived">>),
     inj_check_arrived |-> Node("TestInjector", <<"check_arrived">>),
     check_arrived     |-> Node("Success", <<>>),
     land              |-> Node("Success", <<>>)]

\* the TestInjector instances of the tree
FlightInjectors == {n \in DOMAIN Flight : Flight[n].kind = "TestInjector"}

\* the Sequence instances of the tree
FlightSequences == {n \in DOMAIN Flight : Flight[n].kind = "Sequence"}

\* the tree as constructed: no node ticked, no override set
NewFlight ==
    [status  |-> [n \in DOMAIN Flight |-> INVALID],
     current |-> [n \in FlightSequences |-> 1],
     inj     |-> [n \in FlightInjectors |-> [fixed_override  |-> None,
                                            random_override |-> FALSE]],
     visited |-> {},
     raised  |-> FALSE]

\* a FailureIsRunning that forwards FAILURE
FailureIsRunning_ForwardsFailure(s) == s

\* FailureIsRunning.update: the status it makes of its child's
FailureIsRunning(s) == IF s = FAILURE THEN RUNNING ELSE s

\* FailureIsSuccess.update: the status it makes of its child's
FailureIsSuccess(s) == IF s = FAILURE THEN SUCCESS ELSE s

\* a Sequence that starts every tick at its first child
StartOf_NoMemory(st, n) == IF st.status[n] = RUNNING THEN 1 ELSE 1

\* the child a Sequence with memory starts a tick at
StartOf(st, n) == IF st.status[n] = RUNNING THEN st.current[n] ELSE 1

\* the node n has been ticked and has taken the status s
Visit(st, n, s) ==
    [st EXCEPT !.status[n] = s, !.visited = @ \cup {n}]

RECURSIVE Below(_)
\* the nodes of the subtree at n
Below(n) ==
    {n} \cup UNION {Below(Flight[n].children[k]) : k \in DOMAIN Flight[n].children}

\* stop(INVALID) on the children of n after the k-th
StopLater(st, n, k) ==
    LET later == UNION {Below(Flight[n].children[j]) :
                            j \in {i \in DOMAIN Flight[n].children : i > k}}
    IN  [st EXCEPT !.status = [m \in DOMAIN Flight |->
                                  IF m \in later THEN INVALID ELSE @[m]],
                   !.current = [m \in FlightSequences |->
                                  IF m \in later THEN 1 ELSE @[m]]]

RECURSIVE TickNode(_, _, _)
RECURSIVE TickFrom(_, _, _, _)

\* In both operators the state after the child's tick is bound by
\* "s1 \in {...}", which evaluates the child's tick once.

\* Sequence.tick from its k-th child on
TickFrom(st, n, k, d) ==
    LET children == Flight[n].children IN
    IF k > Len(children)
    THEN [Visit(st, n, SUCCESS) EXCEPT !.current[n] = 1]
    ELSE CHOOSE after \in
           {IF s1.status[children[k]] = SUCCESS
                THEN TickFrom(s1, n, k + 1, d)
            ELSE IF s1.status[children[k]] = RUNNING
                THEN [Visit(s1, n, RUNNING) EXCEPT !.current[n] = k]
            ELSE [Visit(StopLater(s1, n, k), n, FAILURE) EXCEPT !.current[n] = 1]
              : s1 \in {TickNode(st, children[k], d)}} : TRUE

\* tick() of the node n; d gives the draw of each injector
TickNode(st, n, d) ==
    LET kind == Flight[n].kind IN
    IF kind = "Success" THEN Visit(st, n, SUCCESS)
    ELSE IF kind = "Sequence" THEN TickFrom(st, n, StartOf(st, n), d)
    ELSE IF kind = "TestInjector" /\ override_enabled(st.inj[n])
    THEN Visit(st, n, update(st.inj[n], st.status[Flight[n].children[1]], d[n]))
    ELSE LET c == Flight[n].children[1] IN
         CHOOSE after \in
           {IF kind = "TestInjector"
                THEN Visit(s1, n, update(st.inj[n], s1.status[c], d[n]))
            ELSE IF kind = "FailureIsRunning"
                THEN Visit(s1, n, FailureIsRunning(s1.status[c]))
            ELSE IF kind = "FailureIsSuccess"
                THEN Visit(s1, n, FailureIsSuccess(s1.status[c]))
            ELSE \* AssertNever(status=Status.FAILURE)
                 IF s1.status[c] = FAILURE
                 THEN [s1 EXCEPT !.raised = TRUE, !.visited = @ \cup {n}]
                 ELSE Visit(s1, n, s1.status[c])
              : s1 \in {TickNode(st, c, d)}} : TRUE

\* one draw for each status random.random() can select
FlightDraws == {5, 15, 25}

\* tree.tick(): one tick of the root
FlightTick(d) ==
    /\ ~ft.raised
    /\ ft' = TickNode([ft EXCEPT !.visited = {}], "flight", d)
    /\ UNCHANGED ENABLE_TEST_INJECT

\* random_test: set_override() on every TestInjector of the tree
FlightRandomise ==
    /\ ft' = [ft EXCEPT !.inj = [n \in FlightInjectors |->
                                    SetOverrideFields(@[n], None)]]
    /\ UNCHANGED ENABLE_TEST_INJECT

\* tree.chk_mode.global_enable() and tree.chk_mode.global_disable()
FlightGlobal(v) ==
    /\ ENABLE_TEST_INJECT' = v
    /\ UNCHANGED ft

----
InitBlackboard ==
    /\ storage = <<>>
    /\ metadata = <<>>
    /\ clients = <<>>
    /\ objs = <<>>
    /\ registered = {}
    /\ last = Call("none", 0, None, None, FALSE, "ok", NoReturn)

\* the node as constructed: the ClearBlackboardVariable of blackboard2
\* constructs its Blackboard, under an identifier of its own, in __init__
InitStoreLeaf(b) ==
    IF b.module = "blackboard2" /\ b.kind = "Clear"
    THEN /\ bnode = [b EXCEPT !.h = 1]
         /\ storage = <<>>
         /\ objs = <<NewClient("1", b.name, {}, {b.variable_name})>>
         /\ metadata = InitMetadata(<<>>, "1", {}, {b.variable_name})
         /\ clients = [i \in {"1"} |-> 1]
         /\ registered = {1}
         /\ last = Call("none", 0, None, None, FALSE, "ok", NoReturn)
    ELSE /\ bnode = b
         /\ InitBlackboard

Init == InitBlackboard /\ InitTree(TestTree) /\ InitDemo /\ InitLeaf(NewPeriodic(1))
    /\ InitCheck(NewCheck("behaviours", "Check", <<"foo", "">>, None, ON_INITIALISE))
    /\ bnode = NewStoreLeaf("behaviours", "Set", "foo")
    /\ ft = NewFlight

NextBlackboard ==
    \/ \E n \in {None, NotStr}, u \in UsedIds \cup {None, NotUUID}, p \in Profiles :
          Register(n, u, p[1], p[2])
    \/ \E h \in Handles, k \in Keys, v \in Values, ow \in BOOLEAN : Set(h, k, v, ow)
    \/ \E h \in Handles, k \in Keys : Get(h, k)
    \/ \E h \in Handles, k \in Keys : Unset(h, k)
    \/ \E h \in Handles, c \in BOOLEAN : Unregister(h, c)

Next == NextBlackboard /\ UNCHANGED <<treevars, covvars, libvars, chkvars, bnode, ft>>

Spec == Init /\ [][Next]_vars

\* the statuses an override is set to in the runs explored
Overrides == {SUCCESS, RUNNING, FAILURE}

\* the trees explored: every Sequence of MaxChildren leaves
Trees == [1..MaxChildren -> LeafClasses]

InitInjection ==
    /\ InitBlackboard /\ InitDemo /\ InitLeaf(NewPeriodic(1))
    /\ InitCheck(NewCheck("behaviours", "Check", <<"foo", "">>, None, ON_INITIALISE))
    /\ bnode = NewStoreLeaf("behaviours", "Set", "foo")
    /\ ft = NewFlight
    /\ \E tree \in Trees : InitTree(tree)

NextInjection ==
    /\ \/ \E i \in Children, s \in Overrides \cup {None} : set_override(i, s)
       \/ \E i \in Children : disable_override(i)
       \/ \E i \in Children : global_enable(i)
       \/ \E i \in Children : global_disable(i)
       \/ \E d \in [RandomChildren -> RandomDraws] : Tick(d)
    /\ UNCHANGED <<bbvars, covvars, libvars, chkvars, bnode, ft>>

SpecInjection == InitInjection /\ [][NextInjection]_vars

TypeOK ==
    /\ DOMAIN storage \subseteq Keys
    /\ DOMAIN metadata \subseteq Keys
    /\ Len(objs) <= MaxClients
    /\ registered \subseteq Handles
----
\* Properties of the store

\* the key sets an instance registered with
KeysOf(h) == objs[h].read \cup objs[h].write

\* the instance last called
Caller == objs[last.h]

\* the clients recorded for a key
Readers(k) == ToSet(metadata[k].read)
Writers(k) == ToSet(metadata[k].write)

\* C1: get on a key outside the caller's read set and set on a key outside its
\* write set fail with PermissionError, whether or not the key has a value.
C1_PermissionBoundary ==
    /\ (last.op = "get" /\ last.key \notin Caller.read) => last.res = PermissionError
    /\ (last.op = "set" /\ last.key \notin Caller.write) => last.res = PermissionError

\* C2: right after a successful set(c, k, v, overwrite=true), get(c', k) by every
\* client c' with read permission on k returns v.
C2_RoundTrip ==
    (last.op = "set" /\ last.res = "ok" /\ last.flag) =>
        \A h \in Handles :
            last.key \in objs[h].read =>
                GetAttr(objs[h], last.key) = [res |-> "ok", ret |-> <<"value", last.value>>]

\* C3: unset(c, k) on a key that has a stored value removes the value.
C3_UnsetRemoves ==
    [][\A h \in Handles, k \in Keys :
          (Unset(h, k) /\ k \in DOMAIN storage) => k \notin DOMAIN storage']_vars

\* C4: set(c, k, v, overwrite=false) by a client with write permission fails with
\* AlreadyExists and leaves the value as it was when k has a value, and stores v
\* when k has none.
C4_NoOverwrite ==
    [][\A h \in Handles, k \in Keys, v \in Values :
          (Set(h, k, v, FALSE) /\ k \in objs[h].write) =>
              IF k \in DOMAIN storage
              THEN last'.res = AlreadyExists /\ storage' = storage
              ELSE last'.res = "ok" /\ k \in DOMAIN storage' /\ storage'[k] = v]_vars

\* a refused non-overwriting set whose value differs from the one kept
C4_Witness ==
    /\ last.op = "set" /\ ~last.flag /\ last.res = AlreadyExists
    /\ last.key \in Caller.write
    /\ last.key \in DOMAIN storage /\ storage[last.key] # last.value

\* C5: after unregister(c), c's identifier is in no key's reader list and in no
\* key's writer list.
C5_UnregisterRemovesId ==
    (last.op = "unregister" /\ last.res = "ok") =>
        \A k \in DOMAIN metadata :
            Caller.unique_identifier \notin Readers(k) \cup Writers(k)

\* C6: after unregister(c, clear=true) a key of c has a value exactly when it had
\* one and another registered client holds read or write permission on it; the
\* other keys keep their values; unregister(c, clear=false) leaves storage alone.
C6_ClearExact ==
    [][\A h \in Handles, c \in BOOLEAN :
          (Unregister(h, c) /\ last'.res = "ok") =>
              IF c
              THEN /\ \A k \in KeysOf(h) :
                         k \in DOMAIN storage' <=>
                             /\ k \in DOMAIN storage
                             /\ \E g \in registered' : k \in KeysOf(g)
                   /\ \A k \in DOMAIN storage \ KeysOf(h) :
                         k \in DOMAIN storage' /\ storage'[k] = storage[k]
                   /\ \A k \in DOMAIN storage' : storage'[k] = storage[k]
              ELSE storage' = storage]_vars

\* C7 as stated: every key that has a stored value has at least one reader or
\* writer.
C7_StoredKeyHasClient ==
    \A k \in DOMAIN storage :
        k \in DOMAIN metadata /\ Readers(k) \cup Writers(k) # {}

\* C7 as amended: every key that has a stored value has a metadata record, that
\* is, some client named it in its write set when it registered; the record's
\* reader and writer lists may both be empty.
C7_StoredKeyIsRegistered ==
    \A k \in DOMAIN storage :
        k \in DOMAIN metadata /\ \E h \in Handles : k \in objs[h].write

\* a stored value whose key has neither a reader nor a writer left
C7_Witness ==
    \E k \in DOMAIN storage :
        k \in DOMAIN metadata /\ Readers(k) \cup Writers(k) = {}

\* C8: constructing a client with a unique identifier that is already registered
\* raises ValueError and changes neither the client records nor any key's
\* reader and writer lists.
C8_DuplicateIdRejected ==
    [][\A n \in {None, NotStr}, u \in DOMAIN clients, p \in Profiles :
          Register(n, u, p[1], p[2]) =>
              last'.res = "ValueError" /\ UNCHANGED <<objs, clients, metadata>>]_vars

\* C9: keys() is exactly the set of keys on which a registered client holds read
\* or write permission, and keys_filtered_by_clients(S) is exactly the set of
\* keys on which a registered client with an identifier in S does.
C9_IntrospectionExact ==
    /\ keys = {k \in Keys : \E h \in registered : k \in KeysOf(h)}
    /\ \A S \in SUBSET Ids :
          keys_filtered_by_clients(S) =
              {k \in Keys : \E h \in registered :
                  objs[h].unique_identifier \in S /\ k \in KeysOf(h)}

\* C10: no get, set or unset call changes a client's read set, write set, name
\* or identifier, nor any key's reader and writer lists.
C10_PermissionsFixed ==
    [][last'.op \in {"get", "set", "unset"} => UNCHANGED <<objs, metadata>>]_vars

----
\* Test injection: helpers of the properties

\* a step that is a tick of the tree
IsTick == cc'.times_ticked # cc.times_ticked

\* the places of a node in what the latest tick yielded
Places(id) == {n \in DOMAIN yielded : yielded[n] = id}

\* injector i was ticked in the latest tick
Ticked(i) == Places(InjId(i)) # {}

\* the local override of an injector
Mode(t) == <<t.fixed_override, t.random_override>>

\* injector i has a local override, fixed or random
HasOverride(i) == inj[i].fixed_override # None \/ inj[i].random_override

----
\* C11: override_enabled() is true exactly when the blackboard flag
\* ENABLE_TEST_INJECT is true and the injector has a fixed override or is in
\* random mode; it is false while the flag is absent or false.
C11_OverrideEnabled ==
    \A i \in Children :
        /\ override_enabled(inj[i]) <=>
              (ENABLE_TEST_INJECT = "True" /\ HasOverride(i))
        /\ ENABLE_TEST_INJECT \in {None, "False"} => ~override_enabled(inj[i])

\* the flag is on, one injector has an override and is enabled, another has
\* none and is not
C11_Witness ==
    /\ ENABLE_TEST_INJECT = "True"
    /\ \E i, j \in Children :
          /\ HasOverride(i) /\ override_enabled(inj[i])
          /\ ~HasOverride(j) /\ ~override_enabled(inj[j])

\* C12: in a tick with the flag false, an injector around a Success leaf
\* returns SUCCESS whatever its local override; in a tick with the flag true,
\* an injector with the fixed override FAILURE returns FAILURE whatever leaf it
\* wraps.
C12_FlagGatesInjection ==
    [][IsTick =>
        \A i \in Children :
            Ticked(i)' =>
                /\ (ENABLE_TEST_INJECT = "False" /\ base[i] = "Success")
                      => inj'[i].status = SUCCESS
                /\ (ENABLE_TEST_INJECT = "True" /\ inj[i].fixed_override = FAILURE)
                      => inj'[i].status = FAILURE]_vars

\* a Success leaf's injector was ticked to FAILURE under a fixed override
C12_Witness ==
    /\ ENABLE_TEST_INJECT = "True"
    /\ \E i \in Children :
          /\ base[i] = "Success"
          /\ inj[i].fixed_override = FAILURE
          /\ Ticked(i)
          /\ inj[i].status = FAILURE

\* C13: set_override(status) leaves the fixed override on and random mode
\* off, set_override() leaves random mode on and no fixed override,
\* disable_override() leaves neither, whatever the injector held before; the
\* two are never both on.
C13_LastCallWins ==
    [][/\ \A i \in Children :
             ~(inj'[i].fixed_override # None /\ inj'[i].random_override)
       /\ \A i \in Children, s \in Overrides :
             set_override(i, s) => Mode(inj'[i]) = <<s, FALSE>>
       /\ \A i \in Children :
             /\ set_override(i, None) => Mode(inj'[i]) = <<None, TRUE>>
             /\ disable_override(i) => Mode(inj'[i]) = <<None, FALSE>>]_vars

\* one injector holds a fixed override and is not in random mode, another is
\* in random mode and holds no fixed override
C13_Witness ==
    \E i, j \in Children :
        /\ Mode(inj[i]) = <<FAILURE, FALSE>>
        /\ Mode(inj[j]) = <<None, TRUE>>

C15_OneSharedFlag ==
    [][\A i \in Children :
          /\ global_enable(i) =>
                \A j \in Children : override_enabled(inj[j])' <=> HasOverride(j)
          /\ global_disable(i) =>
                \A j \in Children : ~override_enabled(inj[j])'
          /\ (global_enable(i) \/ global_disable(i)) =>
                \A j \in Children : Mode(inj[j])' = Mode(inj[j])]_vars

\* the flag was switched off while two injectors hold local overrides
C15_Witness ==
    /\ ENABLE_TEST_INJECT = "False"
    /\ \E i, j \in Children :
          /\ i # j
          /\ inj[i].fixed_override # None
          /\ inj[j].random_override
          /\ ~override_enabled(inj[i]) /\ ~override_enabled(inj[j])

\* C16: with the flag true, the tick of an injector in random mode leaves it
\* SUCCESS, RUNNING or FAILURE, never INVALID, and in every reachable state
\* each of the three can be the outcome of the next tick of the injector the
\* Sequence starts at.
C16_RandomOutcomes ==
    \A i \in Children :
        (/\ ENABLE_TEST_INJECT = "True"
         /\ inj[i].random_override
         /\ i = StartIndex(seq))
        => /\ \A s \in Overrides :
                 \E d \in [RandomChildren -> RandomDraws] :
                     TickResult(d).inj[i].status = s
           /\ \A d \in [RandomChildren -> RandomDraws] :
                 TickResult(d).inj[i].status \in Overrides

\* an injector in random mode was ticked to RUNNING in a tick after the first
C16_Witness ==
    \E i \in Children :
        /\ ENABLE_TEST_INJECT = "True"
        /\ inj[i].random_override
        /\ Ticked(i)
        /\ inj[i].status = RUNNING
        /\ cc.times_ticked > 1

----
\* Sequence: helpers of the properties

\* the injectors the latest tick went through, lowest first
TickedChildren == {i \in Children : Ticked(i)}

\* the tick of injector i can only return status s: its override is fixed at
\* s, or it is disabled and wraps a leaf that returns s
Forced(i, s) ==
    IF override_enabled(inj[i]) THEN inj[i].fixed_override = s
    ELSE LeafUpdate(base[i]) = s

\* C17: when a child of the Sequence returns FAILURE in a tick, the Sequence
\* is FAILURE after that tick and no child after the failed one was ticked in
\* it; the failed child is the only one that returned FAILURE.
C17_StopsAtFirstFailure ==
    [][IsTick =>
        \A i \in Children :
            (Ticked(i)' /\ inj'[i].status = FAILURE) =>
                /\ seq'.status = FAILURE
                /\ \A j \in Children : j > i => ~Ticked(j)' /\ Places(LeafId(j))' = {}
                /\ \A j \in Children : (j < i /\ Ticked(j)') => inj'[j].status = SUCCESS]_vars

\* the first child failed in the latest tick and the second was not ticked
C17_Witness ==
    /\ seq.status = FAILURE
    /\ \E i, j \in Children :
          /\ i < j
          /\ Ticked(i) /\ inj[i].status = FAILURE
          /\ ~Ticked(j)

\* C18: a tick of the Sequence that follows a RUNNING tick starts at the
\* child that returned RUNNING and ticks no earlier child; a tick that follows
\* SUCCESS or FAILURE starts at the first child. So a FAILURE override on a
\* child before the running one does nothing while the Sequence stays
\* RUNNING, and makes the Sequence FAILURE in the first tick that starts after
\* the Sequence has completed.
C18_ResumesAtRunningChild ==
    [][IsTick =>
        /\ seq.status = RUNNING =>
              \A k \in {seq.current} :
                  /\ \A j \in Children : j < k => ~Ticked(j)'
                  /\ Ticked(k)'
        /\ seq.status \in {SUCCESS, FAILURE} => Ticked(1)'
        /\ \A j \in Children :
              (/\ seq.status # RUNNING
               /\ Forced(j, FAILURE)
               /\ \A m \in Children : m < j => Forced(m, SUCCESS))
              => seq'.status = FAILURE]_vars

\* the Sequence was ticked again at its second child, which is still RUNNING,
\* while the first child holds an enabled FAILURE override
C18_Witness ==
    /\ seq.status = RUNNING
    /\ seq.current > 1
    /\ TickedChildren = {seq.current}
    /\ \E j \in Children :
          /\ j < seq.current
          /\ override_enabled(inj[j])
          /\ inj[j].fixed_override = FAILURE

----
\* test_injector: the tree of five wrapped leaves, with the SUCCESS overrides
\* of the third and fourth injector set and dropped and the flag switched on
\* and off

NextScenario ==
    /\ \/ \E i \in {3, 4} : set_override(i, SUCCESS)
       \/ \E i \in {3, 4} : disable_override(i)
       \/ \E i \in Children : global_enable(i)
       \/ \E i \in Children : global_disable(i)
       \/ \E d \in [RandomChildren -> RandomDraws] : Tick(d)
    /\ UNCHANGED <<bbvars, covvars, libvars, chkvars, bnode, ft>>

SpecScenario == Init /\ [][NextScenario]_vars

\* C19: in the Sequence over the leaves Success, Success, Running, Failure,
\* Success, each in an injector: a tick with no injection in effect leaves the
\* Sequence RUNNING; a tick with the third injector's SUCCESS override in
\* effect and the fourth's not leaves it FAILURE; a tick with both in effect
\* leaves it SUCCESS; the fifth leaf and its injector are not ticked in a tick
\* in which the fourth injector returns FAILURE.
C19_InjectorScenario ==
    [][IsTick =>
        /\ ~override_enabled(inj[3]) =>
              seq'.status = RUNNING /\ cc'.status = RUNNING
        /\ (override_enabled(inj[3]) /\ ~override_enabled(inj[4])) =>
              seq'.status = FAILURE /\ cc'.status = FAILURE
        /\ (override_enabled(inj[3]) /\ override_enabled(inj[4])) =>
              seq'.status = SUCCESS /\ cc'.status = SUCCESS
        /\ (Ticked(4)' /\ inj'[4].status = FAILURE) =>
              ~Ticked(5)' /\ Places(LeafId(5))' = {}]_vars

\* the test's run: a RUNNING tick, a FAILURE tick, then a SUCCESS tick that
\* went through all five injectors and ticked the leaves of the unforced ones
C19_Witness ==
    /\ base = TestTree
    /\ cc.times_running > 0 /\ cc.times_failure > 0 /\ cc.times_success > 0
    /\ seq.status = SUCCESS
    /\ TickedChildren = Children
    /\ Places(LeafId(5)) # {} /\ Places(LeafId(4)) = {}

----
----
\* Coverage: the specifications

\* the subtree N3 = CoverageCounter(TestInjector(R1)) under every override
NextCounter ==
    /\ \/ \E s \in Status \cup {None} : Q1_set_override(s) /\ UNCHANGED treevars
       \/ Q1_disable_override /\ UNCHANGED treevars
       \/ \E v \in {"True", "False"} : Q1_global(v) /\ UNCHANGED covvars
       \/ \E r \in DemoDraws : SubtreeTick(r) /\ UNCHANGED treevars
    /\ UNCHANGED <<bbvars, libvars, chkvars, bnode, ft>>

SpecCounter == Init /\ [][NextCounter]_vars

\* the demo tree under any interleaving of the calls on Q1 and ticks
NextDemo ==
    /\ \/ \E s \in Overrides \cup {None} : Q1_set_override(s) /\ UNCHANGED treevars
       \/ Q1_disable_override /\ UNCHANGED treevars
       \/ \E v \in {"True", "False"} : Q1_global(v) /\ UNCHANGED covvars
       \/ \E r \in DemoDraws : DemoTick(r) /\ UNCHANGED treevars
    /\ UNCHANGED <<bbvars, libvars, chkvars, bnode, ft>>

SpecDemo == Init /\ [][NextDemo]_vars

\* the demo script: Q1.global_enable(), then the loop
InitScript ==
    /\ InitBlackboard /\ InitDemo /\ InitLeaf(NewPeriodic(1))
    /\ InitCheck(NewCheck("behaviours", "Check", <<"foo", "">>, None, ON_INITIALISE))
    /\ bnode = NewStoreLeaf("behaviours", "Set", "foo")
    /\ ft = NewFlight
    /\ ENABLE_TEST_INJECT = "True"
    /\ base = TestTree
    /\ inj = [i \in DOMAIN TestTree |-> NewInjector]
    /\ leaf = [i \in DOMAIN TestTree |-> INVALID]
    /\ seq = [status |-> INVALID, current |-> 1]
    /\ cc = NewCounter
    /\ yielded = <<>>

NextScript ==
    /\ \/ ScriptCall
       \/ \E r \in DemoDraws : ScriptTick(r)
    /\ UNCHANGED <<bbvars, treevars, libvars, chkvars, bnode, ft>>

SpecScript == InitScript /\ [][NextScript]_vars

----
\* Coverage: helpers of the properties

\* the status counters of a CoverageCounter added up
StatusSum(c) == c.times_success + c.times_running + c.times_failure

\* the tick count the visitor holds for a node, 0 for a node it never saw
TickCount(id) == IF id \in DOMAIN V2.times_ticked THEN V2.times_ticked[id] ELSE 0

\* the statuses a node held at the end of its visits
Held(id) == {visits[id][n] : n \in DOMAIN visits[id]}

\* the line of the report about a node
ReportOf(id) == {t \in report : t[1] = id}

\* C21 as stated: no counter of N3 ever decreases, and each tick of N3 adds 1
\* to times_ticked and 1 to exactly one of times_success, times_running and
\* times_failure, so that times_ticked is their sum after every tick.
C21_ExactlyOneCounter ==
    [][/\ demo'.N3.times_ticked >= demo.N3.times_ticked
       /\ demo'.N3.times_ticked # demo.N3.times_ticked =>
             /\ demo'.N3.times_ticked = demo.N3.times_ticked + 1
             /\ StatusSum(demo'.N3) = StatusSum(demo.N3) + 1
             /\ demo'.N3.times_ticked = StatusSum(demo'.N3)]_vars

\* C21 amended: no counter of N3 ever decreases; each tick of N3 adds 1 to
\* times_ticked and 1 to the counter of the status Q1 holds when that status
\* is SUCCESS, RUNNING or FAILURE, and to none of the three when it is
\* INVALID; so times_ticked is at least their sum.
C21_CountersFollowStatus ==
    [][/\ demo'.N3.times_ticked >= demo.N3.times_ticked
       /\ demo'.N3.times_success >= demo.N3.times_success
       /\ demo'.N3.times_running >= demo.N3.times_running
       /\ demo'.N3.times_failure >= demo.N3.times_failure
       /\ demo'.N3.times_ticked # demo.N3.times_ticked =>
             /\ demo'.N3.times_ticked = demo.N3.times_ticked + 1
             /\ demo'.N3.times_success = demo.N3.times_success
                    + (IF demo'.Q1.status = SUCCESS THEN 1 ELSE 0)
             /\ demo'.N3.times_running = demo.N3.times_running
                    + (IF demo'.Q1.status = RUNNING THEN 1 ELSE 0)
             /\ demo'.N3.times_failure = demo.N3.times_failure
                    + (IF demo'.Q1.status = FAILURE THEN 1 ELSE 0)
             /\ demo'.N3.times_ticked >= StatusSum(demo'.N3)]_vars

\* N3 was ticked over an INVALID Q1 and over a FAILURE Q1
C21_Witness ==
    /\ demo.N3.times_ticked = 2
    /\ demo.N3.times_failure = 1
    /\ StatusSum(demo.N3) = 1
    /\ demo.Q1.status = INVALID
    /\ demo.N3.status = INVALID

\* C22: the CoverageVisitor only adds: in every step the tick count of a node
\* grows by the number of visits of that node in the step, at most one, no
\* node leaves the tick counts, no node leaves the record of a status, and
\* every node recorded under a status has a tick count of at least 1.
C22_VisitorAdditive ==
    [][\A id \in DemoIds :
          /\ Len(visits'[id]) - Len(visits[id]) \in {0, 1}
          /\ TickCount(id)' = TickCount(id) + (Len(visits'[id]) - Len(visits[id]))
          /\ id \in DOMAIN V2.times_ticked => id \in DOMAIN V2'.times_ticked
          /\ \A s \in DOMAIN V2.has_returned :
                /\ s \in DOMAIN V2'.has_returned
                /\ id \in V2.has_returned[s] => id \in V2'.has_returned[s]
                /\ id \in V2'.has_returned[s] => TickCount(id)' >= 1]_vars

\* N3 was visited three times and is recorded under two statuses
C22_Witness ==
    /\ TickCount("N3") = 3
    /\ "N3" \in V2.has_returned[FAILURE]
    /\ "N3" \in V2.has_returned[SUCCESS]
    /\ TickCount("N1") = 2

\* C23: the report has one line for each node visited at least once and none
\* for the others; the line gives the number of visits of the node, and says
\* SUCCESS, RUNNING or FAILURE was seen exactly when the node held that status
\* at the end of one of its visits.
C23_ReportExact ==
    report = {<<id, Len(visits[id]),
                SUCCESS \in Held(id), RUNNING \in Held(id), FAILURE \in Held(id)>> :
              id \in {n \in DemoIds : visits[n] # <<>>}}

\* after ticks of the tree the leaf R1 has no line, and Q1 has a line that
\* says FAILURE was seen and SUCCESS was not
C23_Witness ==
    /\ demo.B1.times_ticked > 1
    /\ ReportOf("R1") = {}
    /\ ReportOf("Q1") = {<<"Q1", 2, FALSE, TRUE, TRUE>>}

\* C24 as stated: at the end of the demo the report shows SUCCESS and FAILURE
\* for leaf 3 (R1), and SUCCESS but neither RUNNING nor FAILURE for leaves 1
\* and 2.
C24_LeafThreeObserved ==
    pc = "done" =>
        /\ \A t \in ReportOf("R1") : t[3] /\ t[5]
        /\ ReportOf("R1") # {}
        /\ \A id \in {"S1", "S2"} :
              /\ ReportOf(id) # {}
              /\ \A t \in ReportOf(id) : t[3] /\ ~t[4] /\ ~t[5]

\* C24 amended: once the tick with index 5 is over, and so at the end of the
\* demo, the report shows SUCCESS and FAILURE for the injector Q1 and for the
\* counter N3 around it; for the leaf R1, which is not ticked while the
\* override is in effect, it shows RUNNING and neither SUCCESS nor FAILURE;
\* for S1, S2 and their counters it shows SUCCESS and neither RUNNING nor
\* FAILURE.
C24_InjectorObserved ==
    ii > 5 =>
        /\ \A id \in {"Q1", "N3"} :
              /\ ReportOf(id) # {}
              /\ \A t \in ReportOf(id) : t[3] /\ t[5]
        /\ ReportOf("R1") # {}
        /\ \A t \in ReportOf("R1") : ~t[3] /\ t[4] /\ ~t[5]
        /\ \A id \in {"S1", "S2", "N1", "N2"} :
              /\ ReportOf(id) # {}
              /\ \A t \in ReportOf(id) : t[3] /\ ~t[4] /\ ~t[5]

\* the demo has run its twenty ticks
C24_Witness ==
    /\ pc = "done"
    /\ ii = ScriptTicks
    /\ TickCount("B1") = ScriptTicks
    /\ ReportOf("Q1") # {}

----
\* Leaves of py_trees.behaviours: the specification

InitLibrary ==
    /\ InitBlackboard /\ InitTree(TestTree) /\ InitDemo
    /\ \E b \in Leaves : InitLeaf(b)
    /\ InitCheck(NewCheck("behaviours", "Check", <<"foo", "">>, None, ON_INITIALISE))
    /\ bnode = NewStoreLeaf("behaviours", "Set", "foo")
    /\ ft = NewFlight

NextLibrary ==
    /\ \/ LeafTick
       \/ \E s \in Status : LeafTerminate(s)
       \/ LeafStop
    /\ UNCHANGED <<bbvars, treevars, covvars, chkvars, bnode, ft>>

SpecLibrary == InitLibrary /\ [][NextLibrary]_vars

----
\* Leaves of py_trees.behaviours: the claims

\* the status of the k-th update of a cycle of three phases of n updates each
PhaseOf(n, k) == <<RUNNING, SUCCESS, FAILURE>>[(((k - 1) \div n) % 3) + 1]

\* the status of the k-th update of a Count since its last reset, the four
\* ranges taken in order
CountExpected(b, k) ==
    IF k <= b.fail_until THEN FAILURE
    ELSE IF k <= b.running_until THEN RUNNING
    ELSE IF k <= b.success_until THEN SUCCESS
    ELSE FAILURE

\* C25: a Periodic(n) returns RUNNING for its first n updates, SUCCESS for the
\* next n, FAILURE for the next n, and so on with every phase n updates long,
\* whatever ticks, terminates and stops come in between
C25_PeriodicPhases ==
    node.kind = "Periodic" =>
        \A k \in DOMAIN hist : hist[k] = PhaseOf(node.period, k)

\* C26: the k-th update of a SuccessEveryN(n) since construction is SUCCESS
\* exactly when n divides k and FAILURE otherwise, one SUCCESS in every n
\* updates in a row, and the count is the number of updates whatever
\* terminate and stop were called in between
C26_SuccessEveryN ==
    node.kind = "SuccessEveryN" =>
        /\ node.count = Len(hist)
        /\ \A k \in DOMAIN hist :
              hist[k] = IF k % node.every_n = 0 THEN SUCCESS ELSE FAILURE
        /\ \A j \in 1..(Len(hist) - node.every_n + 1) :
              Cardinality({k \in j..(j + node.every_n - 1) :
                              hist[k] = SUCCESS}) = 1

\* a SuccessEveryN(2) stopped after four updates, the fourth a SUCCESS
C26_Witness ==
    /\ node.kind = "SuccessEveryN"
    /\ node.every_n = 2
    /\ node.status = INVALID
    /\ hist = <<FAILURE, SUCCESS, FAILURE, SUCCESS>>

C28_TerminateIdempotent ==
    \A s \in Status :
        LeafClassTerminate(LeafClassTerminate(node, s), s)
            = LeafClassTerminate(node, s)

----
\* The check of a blackboard variable: the specification

InitChecks ==
    /\ InitBlackboard /\ InitTree(TestTree) /\ InitDemo
    /\ InitLeaf(NewPeriodic(1))
    /\ \E b \in CheckNodes : InitCheck(b)
    /\ bnode = NewStoreLeaf("behaviours", "Set", "foo")
    /\ ft = NewFlight

NextChecks ==
    /\ \/ CheckTick
       \/ \E s \in Status : CheckTerminateCall(s)
       \/ CheckStop
       \/ \E k \in Keys, v \in Values : WriteValue(k, v)
       \/ \E k \in Keys : DeleteValue(k)
    /\ UNCHANGED <<treevars, covvars, libvars, bnode, ft>>

SpecChecks == InitChecks /\ [][NextChecks]_vars

----
\* The check of a blackboard variable: the claims

\* the node's update reads the blackboard afresh at every tick
ReadsAfresh == chk.clearing_policy = ON_INITIALISE

\* the variable the node names, or the sub-field it names, is not there
Missing ==
    \/ chk.variable_name[1] \notin DOMAIN storage
    \/ /\ chk.variable_name[2] # ""
       /\ ~HasAttr(storage[chk.variable_name[1]], chk.variable_name[2])

\* the value the node names, when it is there
Named ==
    IF chk.variable_name[2] = "" THEN storage[chk.variable_name[1]]
    ELSE AttrOf(storage[chk.variable_name[1]], chk.variable_name[2])

\* C29: every tick of a CheckBlackboardVariable returns SUCCESS or FAILURE and
\* raises nothing; a tick that reads the blackboard returns FAILURE when the
\* variable or the sub-field named is missing and when the value differs
\* from the expected one
C29_CheckBinaryTotal ==
    (chk.kind = "Check" /\ outcome # None) =>
        /\ outcome \in {SUCCESS, FAILURE}
        /\ (ReadsAfresh /\ Missing) => outcome = FAILURE
        /\ (ReadsAfresh /\ ~Missing /\ chk.expected_value # None
                /\ Named # chk.expected_value) => outcome = FAILURE

\* C30: under NEVER, once a tick has returned SUCCESS every tick returns
\* SUCCESS, whatever is written to or taken off the blackboard, until a
\* terminate(INVALID)
C30_NeverLatches ==
    (latch /\ outcome # None) => outcome = SUCCESS

\* a node under NEVER that matched "v1" returns SUCCESS at a tick made after
\* the variable was taken off the blackboard
C30_Witness ==
    /\ chk.clearing_policy = NEVER
    /\ chk.variable_name = <<"foo", "">>
    /\ chk.expected_value = "v1"
    /\ "foo" \notin DOMAIN storage
    /\ latch
    /\ outcome = SUCCESS

\* the variable is there and, when a value is expected, holds that value
Satisfied ==
    /\ ~Missing
    /\ chk.expected_value # None => Named = chk.expected_value

\* what a check of the blackboard as it is gives a node of this class
Fresh ==
    IF Satisfied THEN SUCCESS
    ELSE IF chk.kind = "Check" THEN FAILURE ELSE RUNNING

\* C31: a tick of a WaitForBlackboardVariable returns RUNNING or SUCCESS and
\* raises nothing; with no result kept, it returns SUCCESS when the variable
\* is there and matches and RUNNING otherwise, so a node that has not yet
\* succeeded has found the variable missing or different
C31_WaitNeverFails ==
    (chk.kind = "Wait" /\ outcome # None) =>
        /\ outcome \in {RUNNING, SUCCESS}
        /\ chk.clearing_policy # NEVER => outcome = Fresh
        /\ (chk.clearing_policy = NEVER /\ ~latch) => (outcome = Fresh /\ ~Satisfied)

\* C32: in every state, terminate(INVALID) leaves no result kept and the tick
\* after it returns what a check of the blackboard as it is gives;
\* terminate(SUCCESS) and terminate(FAILURE) leave the kept result as it was
C32_InvalidationDiscards ==
    /\ CheckTerminate(chk, INVALID).matching_result = None
    /\ CheckTickResult(CheckTerminate(chk, INVALID))[2] = Fresh
    /\ \A s \in {SUCCESS, FAILURE} :
          CheckTerminate(chk, s).matching_result = chk.matching_result

\* C38: a CheckBlackboardVariable under ON_SUCCESS or NEVER that has returned
\* FAILURE since its latest terminate(INVALID) returns FAILURE at every tick,
\* whatever is written to the blackboard; under ON_SUCCESS no SUCCESS is kept
C38_FailureLatches ==
    /\ (chk.kind = "Check" /\ chk.clearing_policy \in {ON_SUCCESS, NEVER}
            /\ FAILURE \in returned /\ outcome # None) => outcome = FAILURE
    /\ chk.clearing_policy = ON_SUCCESS => chk.matching_result # SUCCESS

\* a check for "v1" that failed on an empty blackboard returns FAILURE at a
\* tick made after "v1" was written
C38_Witness ==
    /\ chk.kind = "Check"
    /\ chk.clearing_policy = ON_SUCCESS
    /\ chk.variable_name = <<"foo", "">>
    /\ chk.expected_value = "v1"
    /\ "foo" \in DOMAIN storage /\ storage["foo"] = "v1"
    /\ outcome = FAILURE

\* C39: under ON_INITIALISE the status a tick leaves a CheckBlackboardVariable
\* of py_trees.behaviours with is what a check of the blackboard as it is
\* gives
C39_NoStaleResult ==
    (chk.kind = "Check" /\ chk.module = "behaviours"
        /\ chk.clearing_policy = ON_INITIALISE /\ outcome # None) =>
            /\ outcome = Fresh
            /\ chk.status = Fresh

\* a check for "v1" that succeeded returns FAILURE at the tick after the
\* variable was rewritten to "v2"
C39_Witness ==
    /\ chk.kind = "Check" /\ chk.module = "behaviours"
    /\ chk.clearing_policy = ON_INITIALISE
    /\ chk.variable_name = <<"foo", "">>
    /\ chk.expected_value = "v1"
    /\ "foo" \in DOMAIN storage /\ storage["foo"] = "v2"
    /\ SUCCESS \in returned
    /\ outcome = FAILURE

----
\* The store: failed calls and unregistered handles

\* C35: a call of the store that fails leaves the storage, the metadata of
\* every key and the client table as they were
C35_FailuresAtomic ==
    [][last'.res # "ok" => UNCHANGED <<storage, metadata, clients>>]_vars

\* C36: a get or a set through a handle that has been unregistered fails with
\* PermissionError, whatever the key
C36_UnregisterRevokes ==
    (last.op \in {"get", "set"} /\ last.h \notin registered) =>
        last.res = PermissionError

----
\* The leaves that write the blackboard: the specification

InitStoreLeaves ==
    /\ InitTree(TestTree) /\ InitDemo
    /\ InitLeaf(NewPeriodic(1))
    /\ InitCheck(NewCheck("behaviours", "Check", <<"foo", "">>, None, ON_INITIALISE))
    /\ \E b \in StoreLeaves : InitStoreLeaf(b)
    /\ ft = NewFlight

NextStoreLeaves ==
    /\ \/ TickClear2
       \/ TickSet2
       \/ TickClear
       \/ TickSet
       \/ /\ \/ \E p \in Profiles : Register(None, None, p[1], p[2])
             \/ \E h \in Handles, k \in Keys, v \in Values : Set(h, k, v, TRUE)
             \/ \E h \in Handles, c \in BOOLEAN : Unregister(h, c)
          /\ UNCHANGED bnode
    /\ UNCHANGED <<treevars, covvars, libvars, chkvars, ft>>

SpecStoreLeaves == InitStoreLeaves /\ [][NextStoreLeaves]_vars

\* the variable the node names
Target == bnode.variable_name

\* C33: a tick of a leaf that writes the blackboard raises nothing and
\* returns SUCCESS, whether its variable is there or not; after a tick of
\* ClearBlackboardVariable the variable is not on the blackboard
C33_KeyNotFoundContained ==
    last.op = "tick" =>
        /\ last.res = "ok"
        /\ last.ret = <<"status", SUCCESS>>
        /\ bnode.kind = "Clear" => Target \notin DOMAIN storage

\* C37: no key's readers and no key's writers hold an identifier twice
C37_ClientsOnce ==
    \A k \in DOMAIN metadata :
        /\ \A i, j \in DOMAIN metadata[k].read :
              metadata[k].read[i] = metadata[k].read[j] => i = j
        /\ \A i, j \in DOMAIN metadata[k].write :
              metadata[k].write[i] = metadata[k].write[j] => i = j

----
\* The FlightTree: the specifications

\* what random.random() gives each injector during one tick
FlightDrawings == [FlightInjectors -> FlightDraws]

\* the rest of the program is not touched by the FlightTree
FlightOnly ==
    UNCHANGED <<bbvars, base, inj, leaf, seq, cc, yielded,
                covvars, libvars, chkvars, bnode>>

\* any order of ticks, of random_test's set_override() loop and of the
\* global switch
NextFlight ==
    /\ \/ \E d \in FlightDrawings : FlightTick(d)
       \/ FlightRandomise
       \/ \E v \in {"True", "False"} : FlightGlobal(v)
    /\ FlightOnly

SpecFlight == Init /\ [][NextFlight]_vars

\* what an injector can hold while the flag is off: nothing, random mode
\* or a fixed FAILURE
FlightOverrides ==
    {NewFlight.inj[n] : n \in FlightInjectors}
        \cup {SetOverrideFields(NewFlight.inj[n], o) : n \in FlightInjectors,
                                                       o \in {None, FAILURE}}

\* random_test: every injector random and the flag on;
\* nominal_test: the flag off, whatever the injectors hold
InitFlightRun ==
    /\ InitBlackboard /\ InitDemo /\ InitLeaf(NewPeriodic(1))
    /\ InitCheck(NewCheck("behaviours", "Check", <<"foo", "">>, None, ON_INITIALISE))
    /\ bnode = NewStoreLeaf("behaviours", "Set", "foo")
    /\ base = TestTree
    /\ inj = [i \in DOMAIN TestTree |-> NewInjector]
    /\ leaf = [i \in DOMAIN TestTree |-> INVALID]
    /\ seq = [status |-> INVALID, current |-> 1]
    /\ cc = NewCounter
    /\ yielded = <<>>
    /\ \/ /\ ENABLE_TEST_INJECT = "True"
          /\ ft = [NewFlight EXCEPT !.inj = [n \in FlightInjectors |->
                                      SetOverrideFields(@[n], None)]]
       \/ /\ ENABLE_TEST_INJECT = "False"
          /\ \E o \in [FlightInjectors -> FlightOverrides] :
                ft = [NewFlight EXCEPT !.inj = o]

\* A tick ends at the first injector that does not return SUCCESS, and the
\* injectors after it make no draw: the drawings with at most one draw
\* that selects another status give every outcome of a tick.
StoppingDrawings ==
    {d \in FlightDrawings : Cardinality({n \in FlightInjectors : d[n] # 5}) <= 1}

\* every outcome of a tick is the outcome of a tick under a stopping drawing
StoppingDrawingsSuffice ==
    \A d \in FlightDrawings : \E e \in StoppingDrawings :
        TickNode([ft EXCEPT !.visited = {}], "flight", d)
            = TickNode([ft EXCEPT !.visited = {}], "flight", e)

\* the next tick ticks the injector i whatever the draws are
Awaited(i) ==
    \A e \in StoppingDrawings :
        i \in TickNode([ft EXCEPT !.visited = {}], "flight", e).visited

\* a tick in which the injector i, certain to be ticked, returns SUCCESS
Advance(i) ==
    /\ Awaited(i)
    /\ \E d \in StoppingDrawings : FlightTick(d)
    /\ ft'.status[i] = SUCCESS
    /\ FlightOnly

\* the loops of random_test and nominal_test: ticks only
NextFlightRun ==
    /\ \E d \in StoppingDrawings : FlightTick(d)
    /\ FlightOnly

\* fair draws: an injector that is ticked again and again returns SUCCESS
\* again and again
SpecFlightRun ==
    /\ InitFlightRun
    /\ [][NextFlightRun]_vars
    /\ \A i \in FlightInjectors : SF_vars(Advance(i))

\* C34 (as stated): the tree has seven TestInjectors and, whatever they
\* inject, 'operation' is never FAILURE and AssertNever never raises
C34_SevenInjectorsSafe ==
    /\ Cardinality(FlightInjectors) = 7
    /\ ft.status["operation"] # FAILURE
    /\ ~ft.raised

\* C34 (amended): the tree has five TestInjectors and, whatever they
\* inject at any tick, with the flag on or off, 'operation' is never
\* FAILURE and AssertNever never raises out of tick()
C34_FlightSafe ==
    /\ Cardinality(FlightInjectors) = 5
    /\ ft.status["operation"] # FAILURE
    /\ ~ft.raised

\* C34 witness: the flag is on, an injector has injected FAILURE in the
\* latest tick and 'operation' has been ticked
C34_Witness ==
    /\ ENABLE_TEST_INJECT = "True"
    /\ \E i \in FlightInjectors : i \in ft.visited /\ ft.status[i] = FAILURE
    /\ "operation" \in ft.visited
    /\ ft.status["inj_check_arrived"] = FAILURE

\* C40 (as stated): seven injectors; with the flag on and all of them
\* random, fair draws lead to root SUCCESS; with the flag off every tick
\* yields root SUCCESS
C40_SevenInjectorsComplete ==
    /\ Cardinality(FlightInjectors) = 7
    /\ (ENABLE_TEST_INJECT = "True") => <>(ft.status["flight"] = SUCCESS)
    /\ []((ENABLE_TEST_INJECT = "False" /\ ft.visited # {})
              => ft.status["flight"] = SUCCESS)

\* C40 (amended): five injectors; with the flag on and all of them random,
\* fair draws lead repeated ticking to root SUCCESS; with the flag off
\* every tick yields root SUCCESS
C40_FlightCompletes ==
    /\ Cardinality(FlightInjectors) = 5
    /\ (ENABLE_TEST_INJECT = "True") => <>(ft.status["flight"] = SUCCESS)
    /\ []((ENABLE_TEST_INJECT = "False" /\ ft.visited # {})
              => ft.status["flight"] = SUCCESS)

\* C40 witness: the flag is on, every injector is random, the last
\* injector has been reached after a tick that stopped at it, and the
\* root is SUCCESS
C40_Witness ==
    /\ ENABLE_TEST_INJECT = "True"
    /\ \A i \in FlightInjectors : ft.inj[i].random_override
    /\ "inj_check_arrived" \in ft.visited
    /\ "upload" \notin ft.visited
    /\ ft.status["flight"] = SUCCESS

====
